---- MODULE Spec2Model ----
(***************************************************************************)
(* The Game of Life engines of wlof/gameoflife: the pure Python engines    *)
(* (gameoflife/gamepython.py), the NumPy/SciPy engines                     *)
(* (gameoflife/gamenumpy.py) and their common base class                   *)
(* (gameoflife/gameoflife.py), as one state machine: an engine object is   *)
(* constructed, then reset(), populate_random(prob) and next_generation()  *)
(* are called on it in any order.                                          *)
(***************************************************************************)
EXTENDS Integers, Sequences, FiniteSets, TLC

VARIABLES
    impl,        \* the class of the engine object
    width,       \* self.width
    height,      \* self.height
    generation,  \* self.generation
    cells,       \* self.cells
    fates,       \* self.fates (full engines only)
    ages,        \* self.ages  (full engines only)
    lastOp,      \* history: the method that ran last
    lastProb,    \* history: the argument of the last populate_random, if it ran last
    draws,       \* history: cells drawn by populate_random since construction or since the last reset() began
    calls,       \* history: next_generation calls since construction or the last reset()
    prevCells,   \* history: the cell grid before the last call, if it was next_generation (else the grid)
    prevFates,   \* history: the fates grid before the last call, if it was next_generation (else the grid)
    unchanged,   \* history: per cell, the consecutive calls of next_generation that kept its state
    zeroStart,   \* history: per cell, whether its age was 0 when that run of calls started
    raised,      \* the exception the last call ended with, if any
    app,         \* the CursesApp object and its event loop (ui/app.py), if one runs
    legacy       \* the threaded Game object of the legacy script (src/gameoflife.py), if one runs

vars == <<impl, width, height, generation, cells, fates, ages,
          lastOp, lastProb, draws, calls, prevCells, prevFates, unchanged, zeroStart,
          raised, app, legacy>>

---------------------------------------------------------------------------
(* Bounds of the model. *)

\* Grids have 1..MaxDim rows and columns and at most MaxCells cells.
MaxDim == 3
MaxCells == 9
\* populate_random is called while the cells it has drawn since construction
\* or the last reset(), and those it is about to draw, number at most MaxDraws.
MaxDraws == 9
\* next_generation is called while generation < MaxGen.
MaxGen == 3
\* random() returns k/RandScale for k in 0..RandScale-1 (the interval [0.0, 1.0));
\* probabilities are k/RandScale for k in 0..RandScale (the interval [0.0, 1.0]).
RandScale == 2
\* Accessors are called with row and col in -MaxCoord..MaxCoord.
MaxCoord == 3
\* The multiples k of the dimensions, -MaxWrap..MaxWrap, added to a coordinate.
MaxWrap == 2

---------------------------------------------------------------------------
(* class Fate *)

StayDead == 0
Birth == 1
Survive == 2
DeathByIsolation == 3
DeathByOvercrowding == 4

\* The constant GamePythonLight.age and GameNumPyLight.age return.
LightAge == 1000

Impls == {"GamePython", "GamePythonLight", "GameNumPy", "GameNumPyLight"}
FullImpls == {"GamePython", "GameNumPy"}
PythonImpls == {"GamePython", "GamePythonLight"}
NumPyImpls == {"GameNumPy", "GameNumPyLight"}

\* The engines without a fates or an ages attribute hold NoGrid there.
NoGrid == <<>>

---------------------------------------------------------------------------
(* class CircularList, class TorusGrid (gamepython.py).  A grid is the     *)
(* list _rows of CircularLists, indexed from 0.                            *)

Range(n) == 0 .. (n - 1)

ListLen(l) == Cardinality(DOMAIN l)

\* __getitem__ taking a negative key for its mirror image, -key
getitem_mirrored(l, key) == l[(IF key < 0 THEN -key ELSE key) % ListLen(l)]

\* CircularList.__getitem__: list.__getitem__(self, key % len(self))
CircularList_getitem(l, key) == l[key % ListLen(l)]

\* CircularList.__setitem__: list.__setitem__(self, key % len(self), value)
CircularList_setitem(l, key, value) == [l EXCEPT ![key % ListLen(l)] = value]

\* TorusGrid.__init__: height rows, each a CircularList of width init_values
TorusGrid(w, h, init_value) == [r \in Range(h) |-> [c \in Range(w) |-> init_value]]

\* TorusGrid.__getitem__: self._rows[idx % len(self._rows)]
TorusGrid_getitem(g, idx) == g[idx % ListLen(g)]

\* grid[row][col]
GridGet(g, row, col) == CircularList_getitem(TorusGrid_getitem(g, row), col)

\* grid[row][col] = value: the row is fetched by TorusGrid.__getitem__ and
\* the item stored in it by CircularList.__setitem__
GridSet(g, row, col, value) ==
    [g EXCEPT ![row % ListLen(g)] = CircularList_setitem(@, col, value)]

---------------------------------------------------------------------------
(* class BaseGamePython *)

\* BaseGamePython._init: self.cells = TorusGrid(self.width, self.height, 0)
BaseGamePython_init(w, h) == TorusGrid(w, h, 0)

\* One cell drawn with the comparison reversed: alive when the draw exceeds prob
draw_cell_reversed(rand, prob) == IF rand > prob THEN 1 ELSE 0

\* One cell of populate_random: 1 if random.random() <= prob else 0
\* (gamepython.py), one item of np.int8(rand <= prob) (gamenumpy.py).
draw_cell(rand, prob) == IF rand <= prob THEN 1 ELSE 0

\* The values random.random() and np.random.uniform(0.0, 1.0) return, in
\* units of 1/RandScale: the half-open interval [0.0, 1.0).
RandValues == 0 .. (RandScale - 1)

\* The probabilities of the interval [0.0, 1.0], in the same units.
ValidProbs == 0 .. RandScale

\* The probabilities populate_random is called with: those of [0.0, 1.0],
\* one below 0.0 and one above 1.0.
Probs == (-1) .. (RandScale + 1)

\* The states one cell can be given by populate_random(prob): one per value
\* the random source can return for it.
CellOutcomes(prob) == {draw_cell(rand, prob) : rand \in RandValues}

\* The two nested loops of the Python engines, for row in range(self.height):
\* for col in range(self.width): each iteration writes the items of its own
\* (row, col) only and reads, of the grids the loop writes, those items only,
\* so the grids after the loop are given item by item.
InLoop(w, h, row, col) == row \in Range(h) /\ col \in Range(w)

\* BaseGamePython.populate_random: self.cells[row][col] = <the cell drawn
\* for (row, col)>
BaseGamePython_populate_random(cs, drawn, w, h) ==
    [row \in DOMAIN cs |-> [col \in DOMAIN cs[row] |->
        IF InLoop(w, h, row, col) THEN drawn[row][col] ELSE cs[row][col]]]

\* BaseGamePython.coords_neighbors: the generator's 8 coordinate pairs, in
\* its order; offset number k of the 3x3 block, the centre (k = 4) skipped.
coords_neighbors(row, col) ==
    LET all == [k \in 1..9 |-> <<row - 1 + ((k - 1) \div 3), col - 1 + ((k - 1) % 3)>>]
    IN SelectSeq(all, LAMBDA xy : <<row, col>> # xy)

RECURSIVE count_live(_, _, _)
\* The loop of get_number_neighbors over the coordinates from number k on.
count_live(cs, coords, k) ==
    IF k > Len(coords) THEN 0
    ELSE (IF GridGet(cs, coords[k][1], coords[k][2]) = 1 THEN 1 ELSE 0)
         + count_live(cs, coords, k + 1)

\* The live cells of the whole 3x3 block around (row, col), its centre included
count_block(cs, row, col) ==
    count_live(cs, coords_neighbors(row, col), 1) + GridGet(cs, row, col)

\* BaseGamePython.get_number_neighbors
get_number_neighbors(cs, row, col) == count_live(cs, coords_neighbors(row, col), 1)

---------------------------------------------------------------------------
(* class GamePython *)

\* The body of the loop of GamePython._compute_fates: the fate stored for
\* (row, col).
GamePython_fate_of(cs, row, col) ==
    LET num_neighbors == get_number_neighbors(cs, row, col)
    IN IF GridGet(cs, row, col) = 0
       THEN (IF num_neighbors = 3 THEN Birth ELSE StayDead)
       ELSE (IF num_neighbors < 2 THEN DeathByIsolation
             ELSE IF num_neighbors > 3 THEN DeathByOvercrowding
             ELSE Survive)

\* GamePython._compute_fates: it reads self.cells and writes self.fates in
\* place, one item per iteration.
GamePython_compute_fates(cs, fs, w, h) ==
    [row \in DOMAIN fs |-> [col \in DOMAIN fs[row] |->
        IF InLoop(w, h, row, col) THEN GamePython_fate_of(cs, row, col) ELSE fs[row][col]]]

\* _apply_fates adding 2 where it adds 1
new_age_counts_twice(fate, age) ==
    IF fate \in {StayDead, Survive} THEN age + 2 ELSE 0

\* The age GamePython._apply_fates stores for a cell of that fate and age.
GamePython_new_age(fate, age) ==
    IF fate \in {StayDead, Survive} THEN age + 1 ELSE 0

\* The cell GamePython._apply_fates leaves at an item of that fate and state.
GamePython_new_cell(fate, cell) ==
    IF fate \in {StayDead, Survive} THEN cell
    ELSE IF fate = Birth THEN 1
    ELSE 0

\* _apply_fates without its last branch (self.cells[row][col] = 0): the
\* cells fated to die stay alive.
apply_fates_no_death(cs, fs, as, w, h) ==
    [cells |-> [row \in DOMAIN cs |-> [col \in DOMAIN cs[row] |->
                   IF InLoop(w, h, row, col) /\ GridGet(fs, row, col) = Birth
                   THEN 1 ELSE cs[row][col]]],
     ages  |-> [row \in DOMAIN as |-> [col \in DOMAIN as[row] |->
                   IF InLoop(w, h, row, col)
                   THEN GamePython_new_age(GridGet(fs, row, col), as[row][col])
                   ELSE as[row][col]]]]

\* GamePython._apply_fates: it reads self.fates and writes self.ages and
\* self.cells in place, one item of each per iteration.
GamePython_apply_fates(cs, fs, as, w, h) ==
    [cells |-> [row \in DOMAIN cs |-> [col \in DOMAIN cs[row] |->
                   IF InLoop(w, h, row, col)
                   THEN GamePython_new_cell(GridGet(fs, row, col), cs[row][col])
                   ELSE cs[row][col]]],
     ages  |-> [row \in DOMAIN as |-> [col \in DOMAIN as[row] |->
                   IF InLoop(w, h, row, col)
                   THEN GamePython_new_age(GridGet(fs, row, col), as[row][col])
                   ELSE as[row][col]]]]

\* GamePython._init
GamePython_init(w, h) ==
    [cells |-> BaseGamePython_init(w, h),
     fates |-> TorusGrid(w, h, StayDead),
     ages  |-> TorusGrid(w, h, 0)]

\* populate_random without its last statement, self._compute_fates()
populate_random_stale_fates(cs, fs, as, drawn, w, h) ==
    [cells |-> BaseGamePython_populate_random(cs, drawn, w, h),
     ages  |-> TorusGrid(w, h, 0),
     fates |-> fs]

\* GamePython.populate_random, the cells drawn being `drawn`
GamePython_populate_random(cs, fs, as, drawn, w, h) ==
    LET cs1 == BaseGamePython_populate_random(cs, drawn, w, h)
    IN [cells |-> cs1,
        ages  |-> TorusGrid(w, h, 0),
        fates |-> GamePython_compute_fates(cs1, fs, w, h)]

RECURSIVE step_in_place_loop(_, _, _, _, _)
\* One pass that decides and applies each cell's fate at once, from cell
\* number k (row-major) on: later cells see the cells already updated.
step_in_place_loop(cs, as, w, h, k) ==
    IF k >= w * h THEN [cells |-> cs, ages |-> as]
    ELSE LET row == k \div w
             col == k % w
             new_fate == GamePython_fate_of(cs, row, col)
         IN step_in_place_loop(
                GridSet(cs, row, col, IF new_fate \in {Birth, Survive} THEN 1 ELSE 0),
                GridSet(as, row, col, GamePython_new_age(new_fate, GridGet(as, row, col))),
                w, h, k + 1)

\* _step updating self.cells in a single pass, without the fates computed
\* beforehand from the whole grid
step_in_place(cs, fs, as, w, h) ==
    LET applied == step_in_place_loop(cs, as, w, h, 0)
    IN [cells |-> applied.cells,
        ages  |-> applied.ages,
        fates |-> GamePython_compute_fates(applied.cells, fs, w, h)]

\* GamePython._step: self._apply_fates(); self._compute_fates()
GamePython_step(cs, fs, as, w, h) ==
    LET applied == GamePython_apply_fates(cs, fs, as, w, h)
    IN [cells |-> applied.cells,
        ages  |-> applied.ages,
        fates |-> GamePython_compute_fates(applied.cells, fs, w, h)]

\* GamePython.fate
GamePython_fate(fs, row, col) == GridGet(fs, row, col)

\* GamePython.age
GamePython_age(as, row, col) == GridGet(as, row, col)

---------------------------------------------------------------------------
(* class GamePythonLight *)

\* A rule under which a live cell survives with 3 live neighbours only
new_cell_needs_three(cs, row, col) ==
    IF get_number_neighbors(cs, row, col) = 3 THEN 1 ELSE 0

\* The body of the loop of GamePythonLight._step: the cell stored in
\* new_cells for (row, col).
GamePythonLight_new_cell(cs, row, col) ==
    LET num_neighbors == get_number_neighbors(cs, row, col)
    IN IF \/ (GridGet(cs, row, col) = 0 /\ num_neighbors = 3)
          \/ (GridGet(cs, row, col) = 1 /\ 2 <= num_neighbors /\ num_neighbors <= 3)
       THEN 1 ELSE 0

\* A step that gives up on a grid smaller than the 3x3 neighbourhood
step_needs_neighbourhood(cs, w, h) ==
    IF w < 3 \/ h < 3
    THEN NoGrid
    ELSE [row \in Range(h) |-> [col \in Range(w) |-> GamePythonLight_new_cell(cs, row, col)]]

\* GamePythonLight._step: new_cells = TorusGrid(self.width, self.height, 0),
\* filled item by item from self.cells; the new self.cells
GamePythonLight_step(cs, w, h) ==
    [row \in DOMAIN TorusGrid(w, h, 0) |-> [col \in DOMAIN TorusGrid(w, h, 0)[row] |->
        GamePythonLight_new_cell(cs, row, col)]]

\* A fate accessor that answers StayDead for every cell
light_fate_dead(cs, row, col) == StayDead

\* GamePythonLight.fate
GamePythonLight_fate(cs, row, col) == IF GridGet(cs, row, col) = 1 THEN Survive ELSE StayDead

\* GamePythonLight.age
GamePythonLight_age(row, col) == LightAge

---------------------------------------------------------------------------
(* NumPy and SciPy, as far as gamenumpy.py uses them.  An array of shape   *)
(* (n0, n1) is a function on 0..n0-1 of functions on 0..n1-1.              *)

\* np.zeros((n0, n1))
np_zeros(n0, n1) == [i \in Range(n0) |-> [j \in Range(n1) |-> 0]]

\* a.take(idx, axis=0, mode='wrap') of an array, a.take(idx, mode='wrap')
\* of a line: the index is wrapped around the length of the axis.
np_take_wrap(a, idx) == a[idx % ListLen(a)]

\* BaseGameNumPy.WEIGHTS
WEIGHTS == << <<1, 1, 1>>, <<1, 10, 1>>, <<1, 1, 1>> >>

RECURSIVE convolve_sum(_, _, _, _)
\* The terms of one item of the convolution from kernel item number k on:
\* kernel item (a, b) weighs the input item at offset (1 - a, 1 - b).
convolve_sum(a, i, j, k) ==
    IF k >= 9 THEN 0
    ELSE LET ka == k \div 3
             kb == k % 3
         IN WEIGHTS[ka + 1][kb + 1] * np_take_wrap(np_take_wrap(a, i + 1 - ka), j + 1 - kb)
            + convolve_sum(a, i, j, k + 1)

\* scipy.ndimage.filters.convolve(a, WEIGHTS, mode='wrap')
convolve(a) == [i \in DOMAIN a |-> [j \in DOMAIN a[i] |-> convolve_sum(a, i, j, 0)]]

---------------------------------------------------------------------------
(* class BaseGameNumPy *)

\* BaseGameNumPy._init: self.cells = np.zeros((self.width, self.height))
BaseGameNumPy_init(w, h) == np_zeros(w, h)

\* BaseGameNumPy.populate_random: rand has shape (self.width, self.height)
\* and self.cells = np.int8(rand <= prob), whose items are `drawn`.
BaseGameNumPy_populate_random(drawn, w, h) ==
    [i \in Range(w) |-> [j \in Range(h) |-> drawn[i][j]]]

---------------------------------------------------------------------------
(* class GameNumPy *)

\* The thresholds of _compute_fates for a kernel whose centre weighs 9
fate_of_centre_nine(con) ==
    LET f0 == StayDead
        f1 == IF con = 3 THEN Birth ELSE f0
        f2 == IF con >= 9 /\ con < 11 THEN DeathByIsolation ELSE f1
        f3 == IF con = 11 \/ con = 12 THEN Survive ELSE f2
        f4 == IF con > 12 THEN DeathByOvercrowding ELSE f3
    IN f4

\* The assignments of GameNumPy._compute_fates, in their order, for an item
\* whose convolved value is con.
GameNumPy_fate_of(con) ==
    LET f0 == StayDead
        f1 == IF con = 3 THEN Birth ELSE f0
        f2 == IF con >= 10 /\ con < 12 THEN DeathByIsolation ELSE f1
        f3 == IF con = 12 \/ con = 13 THEN Survive ELSE f2
        f4 == IF con > 13 THEN DeathByOvercrowding ELSE f3
    IN f4

\* GameNumPy._compute_fates: self.fates is filled in place
GameNumPy_compute_fates(cs, fs) ==
    LET con == convolve(cs)
    IN [i \in DOMAIN fs |-> [j \in DOMAIN fs[i] |-> GameNumPy_fate_of(con[i][j])]]

\* _apply_fates without self.ages[unchanged] += 1
new_age_never_older(new_cell, cell, age) == 0

\* The age GameNumPy._apply_fates stores for an item: self.ages[unchanged]
\* += 1, then self.ages[changed] = 0.
GameNumPy_new_age(new_cell, cell, age) ==
    LET is_unchanged == (new_cell = cell)
        a1 == IF is_unchanged THEN age + 1 ELSE age
    IN IF ~is_unchanged THEN 0 ELSE a1

\* GameNumPy._apply_fates
GameNumPy_apply_fates(cs, fs, as, w, h) ==
    LET zeros == np_zeros(w, h)
        new_cells == [i \in DOMAIN zeros |-> [j \in DOMAIN zeros[i] |->
                        IF fs[i][j] = Birth \/ fs[i][j] = Survive THEN 1 ELSE zeros[i][j]]]
    IN [cells |-> new_cells,
        ages  |-> [i \in DOMAIN as |-> [j \in DOMAIN as[i] |->
                     GameNumPy_new_age(new_cells[i][j], cs[i][j], as[i][j])]]]

\* GameNumPy._init
GameNumPy_init(w, h) ==
    [cells |-> BaseGameNumPy_init(w, h),
     fates |-> [i \in Range(w) |-> [j \in Range(h) |-> StayDead]],
     ages  |-> np_zeros(w, h)]

\* GameNumPy.populate_random, the cells drawn being `drawn`
GameNumPy_populate_random(cs, fs, as, drawn, w, h) ==
    LET cs1 == BaseGameNumPy_populate_random(drawn, w, h)
    IN [cells |-> cs1,
        ages  |-> as,
        fates |-> GameNumPy_compute_fates(cs1, fs)]

\* _step with its two statements swapped: the fates are computed, then
\* applied, so that afterwards they describe the step just taken.
step_compute_then_apply(cs, fs, as, w, h) ==
    LET computed == GameNumPy_compute_fates(cs, fs)
        applied == GameNumPy_apply_fates(cs, computed, as, w, h)
    IN [cells |-> applied.cells,
        ages  |-> applied.ages,
        fates |-> computed]

\* GameNumPy._step: self._apply_fates(); self._compute_fates()
GameNumPy_step(cs, fs, as, w, h) ==
    LET applied == GameNumPy_apply_fates(cs, fs, as, w, h)
    IN [cells |-> applied.cells,
        ages  |-> applied.ages,
        fates |-> GameNumPy_compute_fates(applied.cells, fs)]

\* GameNumPy.fate
GameNumPy_fate(fs, row, col) == np_take_wrap(np_take_wrap(fs, row), col)

\* GameNumPy.age
GameNumPy_age(as, row, col) == np_take_wrap(np_take_wrap(as, row), col)

---------------------------------------------------------------------------
(* class GameNumPyLight *)

\* A step that leaves the cells as they are
step_keeps_cells(cs) == cs

\* GameNumPyLight._step: self.cells.fill(0), then 1 where con is 3, 12 or 13
GameNumPyLight_step(cs) ==
    LET con == convolve(cs)
    IN [i \in DOMAIN cs |-> [j \in DOMAIN cs[i] |->
          IF con[i][j] = 3 \/ con[i][j] = 12 \/ con[i][j] = 13 THEN 1 ELSE 0]]

\* GameNumPyLight.fate
GameNumPyLight_fate(cs, row, col) ==
    IF np_take_wrap(np_take_wrap(cs, row), col) = 1 THEN Survive ELSE StayDead

\* GameNumPyLight.age
GameNumPyLight_age(row, col) == LightAge

---------------------------------------------------------------------------
(* class GameOfLife: the methods of the base class, dispatching to the     *)
(* overrides of the class i of the object.                                 *)

\* self._init() of an object of class i
Engine_init(i, w, h) ==
    CASE i = "GamePython" -> GamePython_init(w, h)
      [] i = "GamePythonLight" ->
            [cells |-> BaseGamePython_init(w, h), fates |-> NoGrid, ages |-> NoGrid]
      [] i = "GameNumPy" -> GameNumPy_init(w, h)
      [] i = "GameNumPyLight" ->
            [cells |-> BaseGameNumPy_init(w, h), fates |-> NoGrid, ages |-> NoGrid]

\* self.populate_random(prob) of an object of class i, the cells drawn
\* being `drawn`
Engine_populate_random(i, cs, fs, as, drawn, w, h) ==
    CASE i = "GamePython" -> GamePython_populate_random(cs, fs, as, drawn, w, h)
      [] i = "GamePythonLight" ->
            [cells |-> BaseGamePython_populate_random(cs, drawn, w, h),
             fates |-> fs, ages |-> as]
      [] i = "GameNumPy" -> GameNumPy_populate_random(cs, fs, as, drawn, w, h)
      [] i = "GameNumPyLight" ->
            [cells |-> BaseGameNumPy_populate_random(drawn, w, h),
             fates |-> fs, ages |-> as]

\* self._step() of an object of class i
Engine_step(i, cs, fs, as, w, h) ==
    CASE i = "GamePython" -> GamePython_step(cs, fs, as, w, h)
      [] i = "GamePythonLight" ->
            [cells |-> GamePythonLight_step(cs, w, h), fates |-> fs, ages |-> as]
      [] i = "GameNumPy" -> GameNumPy_step(cs, fs, as, w, h)
      [] i = "GameNumPyLight" ->
            [cells |-> GameNumPyLight_step(cs), fates |-> fs, ages |-> as]

\* GameOfLife.__init__: self.generation = 1; self._init()
GameOfLife_init(i, w, h) ==
    [generation |-> 1, grids |-> Engine_init(i, w, h)]

\* reset without its first statement, self.generation = 1
reset_keeps_generation(i, gen, w, h) ==
    [generation |-> gen, grids |-> Engine_init(i, w, h)]

\* GameOfLife.reset: self.generation = 1; self._init()
GameOfLife_reset(i, gen, w, h) ==
    [generation |-> 1, grids |-> Engine_init(i, w, h)]

\* next_generation without its last statement, self.generation += 1
next_generation_no_increment(i, cs, fs, as, gen, w, h) ==
    [generation |-> gen, grids |-> Engine_step(i, cs, fs, as, w, h)]

\* GameOfLife.next_generation: self._step(); self.generation += 1
GameOfLife_next_generation(i, cs, fs, as, gen, w, h) ==
    [generation |-> gen + 1, grids |-> Engine_step(i, cs, fs, as, w, h)]

\* game.fate(row, col) on the object in its current state
fate(row, col) ==
    CASE impl = "GamePython" -> GamePython_fate(fates, row, col)
      [] impl = "GamePythonLight" -> GamePythonLight_fate(cells, row, col)
      [] impl = "GameNumPy" -> GameNumPy_fate(fates, row, col)
      [] impl = "GameNumPyLight" -> GameNumPyLight_fate(cells, row, col)

\* game.age(row, col) on the object in its current state
age(row, col) ==
    CASE impl = "GamePython" -> GamePython_age(ages, row, col)
      [] impl = "GamePythonLight" -> GamePythonLight_age(row, col)
      [] impl = "GameNumPy" -> GameNumPy_age(ages, row, col)
      [] impl = "GameNumPyLight" -> GameNumPyLight_age(row, col)

---------------------------------------------------------------------------
(* The state machine. *)

\* The sizes engines are constructed with.
Dims == {d \in (1..MaxDim) \X (1..MaxDim) : d[1] * d[2] <= MaxCells}

\* The shape (rows, columns) of the grids of an object of class i: a
\* TorusGrid has self.height rows of self.width items, a NumPy array is
\* created with shape (self.width, self.height).
Shape(i, w, h) == IF i \in PythonImpls THEN <<h, w>> ELSE <<w, h>>

\* The grids populate_random(prob) can draw: each cell's state is decided by
\* its own draw.
DrawnGrids(i, w, h, prob) ==
    [Range(Shape(i, w, h)[1]) -> [Range(Shape(i, w, h)[2]) -> CellOutcomes(prob)]]

\* lastProb when populate_random did not run last
NoProb == "none"

\* raised when the last call returned normally
NoError == "none"

\* lastOp when no method of an engine has been called
NoOp == "none"

\* An engine object exists: its constructor was called and returned normally.
Constructed == lastOp # NoOp /\ ~(lastOp = "__init__" /\ raised # NoError)

\* app and legacy when the engine is driven directly, by neither application
NoApp == [pc |-> "none"]
NoLegacy == [pc |-> "none"]

\* History of a grid-shaped value v per cell of the grid g.
PerCell(g, v) == [i \in DOMAIN g |-> [j \in DOMAIN g[i] |-> v]]

\* History update: the calls of next_generation in a row that kept each cell.
NextUnchanged(old, new, u) ==
    [i \in DOMAIN new |-> [j \in DOMAIN new[i] |->
        IF new[i][j] = old[i][j] THEN u[i][j] + 1 ELSE 0]]

\* History update: whether the age was 0 when each cell's run began.
NextZeroStart(old, new, as, z) ==
    [i \in DOMAIN new |-> [j \in DOMAIN new[i] |->
        IF new[i][j] = old[i][j] THEN z[i][j] ELSE as[i][j] = 0]]

\* Whether each cell's age is 0.
AgeIsZero(g, as) == [i \in DOMAIN g |-> [j \in DOMAIN g[i] |-> as[i][j] = 0]]

Init ==
    /\ impl \in Impls
    /\ \E d \in Dims :
         /\ width = d[1]
         /\ height = d[2]
         /\ \E made \in {GameOfLife_init(impl, d[1], d[2])} :
               /\ generation = made.generation
               /\ cells = made.grids.cells
               /\ fates = made.grids.fates
               /\ ages = made.grids.ages
               /\ prevCells = made.grids.cells
               /\ prevFates = made.grids.fates
               /\ unchanged = IF impl \in FullImpls THEN PerCell(made.grids.cells, 0) ELSE NoGrid
               /\ zeroStart = IF impl \in FullImpls
                              THEN AgeIsZero(made.grids.cells, made.grids.ages) ELSE NoGrid
    /\ lastOp = "__init__"
    /\ lastProb = NoProb
    /\ draws = 0
    /\ calls = 0
    /\ raised = NoError
    /\ app = NoApp
    /\ legacy = NoLegacy

\* game.reset()
Reset ==
    /\ Constructed
    /\ raised' = NoError
    /\ \E made \in {GameOfLife_reset(impl, generation, width, height)} :
       /\ generation' = made.generation
       /\ cells' = made.grids.cells
       /\ fates' = made.grids.fates
       /\ ages' = made.grids.ages
       /\ lastOp' = "reset"
       /\ lastProb' = NoProb
       /\ draws' = 0
       /\ calls' = 0
       /\ prevCells' = made.grids.cells
       /\ prevFates' = made.grids.fates
       /\ unchanged' = IF impl \in FullImpls THEN PerCell(made.grids.cells, 0) ELSE NoGrid
       /\ zeroStart' = IF impl \in FullImpls
                       THEN AgeIsZero(made.grids.cells, made.grids.ages) ELSE NoGrid
       /\ UNCHANGED <<impl, width, height, app, legacy>>

\* game.populate_random(prob)
PopulateRandom ==
    /\ Constructed
    /\ draws + width * height <= MaxDraws
    /\ raised' = NoError
    /\ \E prob \in Probs :
      \E drawn \in DrawnGrids(impl, width, height, prob) :
        \E made \in {Engine_populate_random(impl, cells, fates, ages, drawn, width, height)} :
           /\ cells' = made.cells
           /\ fates' = made.fates
           /\ ages' = made.ages
           /\ lastOp' = "populate_random"
           /\ lastProb' = prob
           /\ draws' = draws + width * height
           /\ prevCells' = made.cells
           /\ prevFates' = made.fates
           /\ unchanged' = IF impl \in FullImpls THEN PerCell(made.cells, 0) ELSE NoGrid
           /\ zeroStart' = IF impl \in FullImpls
                           THEN AgeIsZero(made.cells, made.ages) ELSE NoGrid
           /\ UNCHANGED <<impl, width, height, generation, calls, app, legacy>>

\* game.next_generation()
NextGeneration ==
    /\ Constructed
    /\ generation < MaxGen
    /\ raised' = NoError
    /\ \E made \in {GameOfLife_next_generation(impl, cells, fates, ages, generation,
                                                width, height)} :
          /\ generation' = made.generation
          /\ cells' = made.grids.cells
          /\ fates' = made.grids.fates
          /\ ages' = made.grids.ages
          /\ lastOp' = "next_generation"
          /\ lastProb' = NoProb
          /\ calls' = calls + 1
          /\ prevCells' = cells
          /\ prevFates' = fates
          /\ unchanged' = IF impl \in FullImpls
                          THEN NextUnchanged(cells, made.grids.cells, unchanged) ELSE NoGrid
          /\ zeroStart' = IF impl \in FullImpls
                          THEN NextZeroStart(cells, made.grids.cells, made.grids.ages, zeroStart)
                          ELSE NoGrid
          /\ UNCHANGED <<impl, width, height, draws, app, legacy>>

Next == Reset \/ PopulateRandom \/ NextGeneration

Spec == Init /\ [][Next]_vars

---------------------------------------------------------------------------
(* The rules of Life, stated on a grid of any shape: the reference the     *)
(* engines are compared with.                                              *)

\* The cell of grid g at (i, j), both coordinates wrapped around the grid.
At(g, i, j) == g[i % ListLen(g)][j % ListLen(g[i % ListLen(g)])]

\* The live cells among the 8 cells around (i, j).
LiveNeighbours(g, i, j) ==
    At(g, i - 1, j - 1) + At(g, i - 1, j) + At(g, i - 1, j + 1)
    + At(g, i, j - 1) + At(g, i, j + 1)
    + At(g, i + 1, j - 1) + At(g, i + 1, j) + At(g, i + 1, j + 1)

\* B3/S23: the state of (i, j) in the generation after g.
LifeRule(g, i, j) ==
    IF \/ (g[i][j] = 0 /\ LiveNeighbours(g, i, j) = 3)
       \/ (g[i][j] = 1 /\ LiveNeighbours(g, i, j) \in {2, 3})
    THEN 1 ELSE 0

\* The fate of (i, j) in the step from g to the generation after it.
Classify(g, i, j) ==
    CASE g[i][j] = 0 /\ LiveNeighbours(g, i, j) = 3 -> Birth
      [] g[i][j] = 0 /\ LiveNeighbours(g, i, j) # 3 -> StayDead
      [] g[i][j] = 1 /\ LiveNeighbours(g, i, j) < 2 -> DeathByIsolation
      [] g[i][j] = 1 /\ LiveNeighbours(g, i, j) > 3 -> DeathByOvercrowding
      [] g[i][j] = 1 /\ LiveNeighbours(g, i, j) \in {2, 3} -> Survive

\* The cells of a grid, as index pairs.
CellsOf(g) == UNION {{<<i, j>> : j \in DOMAIN g[i]} : i \in DOMAIN g}

---------------------------------------------------------------------------
(* C1: in every engine, generation is 1 after construction and always      *)
(* equals 1 plus the number of next_generation calls made since            *)
(* construction or the most recent reset(): next_generation adds exactly   *)
(* 1, reset() returns it to 1, populate_random leaves it unchanged.        *)
C1_GenerationCounts == generation = 1 + calls

\* populate_random has just run after two next_generation calls.
C1_Witness == lastOp = "populate_random" /\ calls = 2 /\ generation = 3

---------------------------------------------------------------------------
(* What the last call of next_generation did to cell ij. *)

JustBorn(ij) == prevCells[ij[1]][ij[2]] = 0 /\ cells[ij[1]][ij[2]] = 1
JustDied(ij) == prevCells[ij[1]][ij[2]] = 1 /\ cells[ij[1]][ij[2]] = 0
StayedAlive(ij) == prevCells[ij[1]][ij[2]] = 1 /\ cells[ij[1]][ij[2]] = 1
StayedDead(ij) == prevCells[ij[1]][ij[2]] = 0 /\ cells[ij[1]][ij[2]] = 0

(* C2: GamePython.next_generation replaces the cell grid by the            *)
(* synchronous B3/S23 successor of the grid as it stood before the call:   *)
(* each cell is alive afterwards iff it was dead with exactly 3 live       *)
(* neighbours or alive with 2 or 3, the neighbours counted on the pre-call *)
(* grid with toroidal wraparound, whatever the iteration order.            *)
C2_SynchronousRule ==
    (impl = "GamePython" /\ lastOp = "next_generation") =>
        \A ij \in CellsOf(cells) : cells[ij[1]][ij[2]] = LifeRule(prevCells, ij[1], ij[2])

\* A call of GamePython.next_generation on a 3x3 grid in which cells were
\* born and others survived.
C2_Witness ==
    /\ impl = "GamePython"
    /\ lastOp = "next_generation"
    /\ width = 3 /\ height = 3
    /\ \E ij \in CellsOf(cells) : JustBorn(ij)
    /\ \E ij \in CellsOf(cells) : StayedAlive(ij)

---------------------------------------------------------------------------
(* C3: in the full engines, in every state reached by construction, reset, *)
(* populate_random or next_generation, the fates grid is the               *)
(* classification of the current cell grid (Birth for a dead cell with     *)
(* exactly 3 live neighbours, StayDead for any other dead cell,            *)
(* DeathByIsolation below 2, DeathByOvercrowding above 3, Survive for 2 or *)
(* 3); so fates are valid after populate_random, before the first          *)
(* next_generation.                                                        *)
C3_FatesClassifyCells ==
    impl \in FullImpls =>
        \A ij \in CellsOf(cells) : fates[ij[1]][ij[2]] = Classify(cells, ij[1], ij[2])

\* populate_random has run on a new full engine, next_generation has not,
\* and a cell is fated to be born and another to survive.
C3_Witness ==
    /\ impl \in FullImpls
    /\ lastOp = "populate_random"
    /\ calls = 0
    /\ \E ij \in CellsOf(cells) : fates[ij[1]][ij[2]] = Birth
    /\ \E ij \in CellsOf(cells) : fates[ij[1]][ij[2]] = Survive

---------------------------------------------------------------------------
(* C4, as claimed: in the full engine, for every cell after any            *)
(* next_generation call, the cell is alive iff fate(r,c) is Birth or       *)
(* Survive.                                                                *)
C4_AliveIffBirthOrSurvive ==
    (impl \in FullImpls /\ lastOp = "next_generation") =>
        \A ij \in CellsOf(cells) :
            (cells[ij[1]][ij[2]] = 1) <=> (fate(ij[1], ij[2]) \in {Birth, Survive})

(* C4, amended: in the full engine, for every cell after any               *)
(* next_generation call, the cell is alive iff fate(r,c) is Survive,       *)
(* DeathByIsolation or DeathByOvercrowding (and dead iff it is StayDead or *)
(* Birth): the fate is that of the cell's next step.                       *)
C4_AliveIffFateOfLiveCell ==
    (impl \in FullImpls /\ lastOp = "next_generation") =>
        \A ij \in CellsOf(cells) :
            (cells[ij[1]][ij[2]] = 1)
                <=> (fate(ij[1], ij[2]) \in {Survive, DeathByIsolation, DeathByOvercrowding})

\* After a next_generation call a cell born in it is alive and has a fate
\* of death.
C4_Witness ==
    /\ impl \in FullImpls
    /\ lastOp = "next_generation"
    /\ \E ij \in CellsOf(cells) :
          /\ JustBorn(ij)
          /\ fate(ij[1], ij[2]) \in {DeathByIsolation, DeathByOvercrowding}

---------------------------------------------------------------------------
(* C5, as claimed: in the full engine, fate(r,c) queried right after a     *)
(* next_generation call describes the transition the cell underwent in     *)
(* that call: Birth if it was dead and is alive, DeathByIsolation or       *)
(* DeathByOvercrowding if it was alive and is dead, Survive if alive       *)
(* before and after, StayDead if dead before and after.                    *)
C5_FateOfStepJustTaken ==
    (impl \in FullImpls /\ lastOp = "next_generation") =>
        \A ij \in CellsOf(cells) :
            /\ JustBorn(ij) => fate(ij[1], ij[2]) = Birth
            /\ JustDied(ij) => fate(ij[1], ij[2]) \in {DeathByIsolation, DeathByOvercrowding}
            /\ StayedAlive(ij) => fate(ij[1], ij[2]) = Survive
            /\ StayedDead(ij) => fate(ij[1], ij[2]) = StayDead

(* C5, amended: in the full engine, the fate a cell has right before a     *)
(* next_generation call describes the transition the cell undergoes in     *)
(* that call (Birth: dead, then alive; DeathByIsolation or                 *)
(* DeathByOvercrowding: alive, then dead; Survive: alive before and after; *)
(* StayDead: dead before and after); queried right after a call, fate(r,c) *)
(* describes the transition of the following call.                         *)
C5_FateOfStepToCome ==
    (impl \in FullImpls /\ lastOp = "next_generation") =>
        \A ij \in CellsOf(cells) :
            /\ JustBorn(ij) => prevFates[ij[1]][ij[2]] = Birth
            /\ JustDied(ij) => prevFates[ij[1]][ij[2]] \in {DeathByIsolation, DeathByOvercrowding}
            /\ StayedAlive(ij) => prevFates[ij[1]][ij[2]] = Survive
            /\ StayedDead(ij) => prevFates[ij[1]][ij[2]] = StayDead

\* A next_generation call of a full engine in which cells were born and
\* others survived.
C5_Witness ==
    /\ impl \in FullImpls
    /\ lastOp = "next_generation"
    /\ \E ij \in CellsOf(cells) : JustBorn(ij) /\ fate(ij[1], ij[2]) # Birth
    /\ \E ij \in CellsOf(cells) : StayedAlive(ij)

---------------------------------------------------------------------------
(* C6: age bookkeeping in the full engines.  Starting from age 0 (right    *)
(* after populate_random or right after a flip), a cell whose state is     *)
(* left unchanged by each of N consecutive next_generation calls has age   *)
(* exactly N after them, and a cell whose state flips in a next_generation *)
(* call has age 0 right after that call.                                   *)
C6_AgeCountsUnchangedCalls ==
    impl \in FullImpls =>
        \A ij \in CellsOf(cells) :
            /\ zeroStart[ij[1]][ij[2]] => age(ij[1], ij[2]) = unchanged[ij[1]][ij[2]]
            /\ (lastOp = "next_generation" /\ (JustBorn(ij) \/ JustDied(ij)))
                   => age(ij[1], ij[2]) = 0

\* Two next_generation calls kept a cell that started at age 0 (its age is
\* 2), and the last one flipped another cell.
C6_Witness ==
    /\ impl \in FullImpls
    /\ lastOp = "next_generation"
    /\ \E ij \in CellsOf(cells) :
          zeroStart[ij[1]][ij[2]] /\ unchanged[ij[1]][ij[2]] = 2 /\ age(ij[1], ij[2]) = 2
    /\ \E ij \in CellsOf(cells) : JustBorn(ij) \/ JustDied(ij)

---------------------------------------------------------------------------
(* C7: after populate_random on either full engine every age is 0,         *)
(* whatever the state before the call, also when populate_random is called *)
(* after next_generation calls without a reset in between.                 *)
C7_AgesZeroAfterPopulate ==
    (impl \in FullImpls /\ lastOp = "populate_random") =>
        \A ij \in CellsOf(cells) : age(ij[1], ij[2]) = 0

\* The same, of the pure Python engine alone.
C7_PythonAgesZeroAfterPopulate ==
    (impl = "GamePython" /\ lastOp = "populate_random") =>
        \A ij \in CellsOf(cells) : age(ij[1], ij[2]) = 0

---------------------------------------------------------------------------
(* Coordinates the accessors are called with. *)

Coords == (-MaxCoord) .. MaxCoord
Wraps == (-MaxWrap) .. MaxWrap

\* x modulo n, from its definition: the m in 0..n-1 with x = q * n + m.
Wrapped(x, n) ==
    CHOOSE m \in 0 .. (n - 1) :
        \E q \in (-(MaxCoord + MaxWrap * n + 1)) .. (MaxCoord + MaxWrap * n + 1) : x = q * n + m

(* C8: wraparound in the pure Python engine.  On a width x height grid,    *)
(* fate(r,c), age(r,c) and the TorusGrid reads are defined for every       *)
(* integer r and c, negative or beyond the dimension, and return the value *)
(* stored at (r mod height, c mod width); hence get(r, c) =                *)
(* get(r + k*height, c + k*width) for every integer k.                     *)
C8_PythonWraparound ==
    impl \in PythonImpls =>
        \A r \in Coords : \A c \in Coords :
            /\ GridGet(cells, r, c) = cells[Wrapped(r, height)][Wrapped(c, width)]
            /\ impl = "GamePython" =>
                  /\ fate(r, c) = fates[Wrapped(r, height)][Wrapped(c, width)]
                  /\ age(r, c) = ages[Wrapped(r, height)][Wrapped(c, width)]
            /\ \A k \in Wraps :
                  /\ GridGet(cells, r + k * height, c + k * width) = GridGet(cells, r, c)
                  /\ fate(r + k * height, c + k * width) = fate(r, c)
                  /\ age(r + k * height, c + k * width) = age(r, c)

\* A populated 3 x 2 GamePython grid whose cell (1, 2) alone is fated to die
\* of isolation, read at (-1, -1) and at (3, 5).
C8_Witness ==
    /\ impl = "GamePython"
    /\ lastOp = "populate_random"
    /\ width = 3 /\ height = 2
    /\ fate(-1, -1) = DeathByIsolation
    /\ fate(3, 5) = DeathByIsolation
    /\ \A ij \in CellsOf(fates) :
           ij # <<1, 2>> => fates[ij[1]][ij[2]] # DeathByIsolation

---------------------------------------------------------------------------
(* C9: on a grid with width # height the NumPy engines address the grid    *)
(* like the pure Python engine: fate(row, col) and age(row, col) wrap row  *)
(* modulo height and col modulo width, so fate(row, col) =                 *)
(* fate(row + height, col) = fate(row, col + width).                       *)
C9_NumPyWrapsLikePython ==
    (impl \in NumPyImpls /\ width # height) =>
        \A r \in Coords : \A c \in Coords :
            /\ fate(r + height, c) = fate(r, c)
            /\ fate(r, c + width) = fate(r, c)
            /\ age(r + height, c) = age(r, c)
            /\ age(r, c + width) = age(r, c)

---------------------------------------------------------------------------
(* C10: populate_random(0.0) yields an all-dead grid, for every value the  *)
(* random source can return for a cell (any value of [0.0, 1.0), 0.0       *)
(* included), in the pure Python and the NumPy engines.                    *)
C10_ZeroProbAllDead ==
    (lastOp = "populate_random" /\ lastProb = 0) =>
        \A ij \in CellsOf(cells) : cells[ij[1]][ij[2]] = 0

---------------------------------------------------------------------------
(* C11: populate_random(1.0) yields an all-alive grid, for every value the *)
(* random source can return for a cell (any value of [0.0, 1.0)), in the   *)
(* pure Python and the NumPy engines.                                      *)
C11_FullProbAllAlive ==
    (lastOp = "populate_random" /\ lastProb = RandScale) =>
        \A ij \in CellsOf(cells) : cells[ij[1]][ij[2]] = 1

\* populate_random(1.0) has run on a 3 x 3 grid: each of the 9 cells had
\* every value of RandValues as a possible draw.
C11_Witness ==
    /\ lastOp = "populate_random"
    /\ lastProb = RandScale
    /\ width = 3 /\ height = 3
    /\ Cardinality(RandValues) > 1
    /\ Cardinality(CellsOf(cells)) = 9

---------------------------------------------------------------------------
(* Engines populated with a pattern: populate_random(prob) with a          *)
(* probability that leaves both states possible for every cell can draw    *)
(* any grid, among them a 2x2 block and a line of three cells.             *)

\* Grids holding a block have 4..MaxBlockDim rows and columns.
MaxBlockDim == 5
\* Grids holding the line of three have 10..MaxBlinkerDim rows and columns.
MaxBlinkerDim == 10

BlockDims == (4 .. MaxBlockDim) \X (4 .. MaxBlockDim)
BlinkerDims == (10 .. MaxBlinkerDim) \X (10 .. MaxBlinkerDim)

\* The live cells of a grid, as index pairs.
LiveCells(g) == {ij \in CellsOf(g) : g[ij[1]][ij[2]] = 1}

\* The 2x2 block whose top left cell is (r0, c0) on a torus of the shape of g.
BlockCells(g, r0, c0) ==
    {<<(r0 + a) % ListLen(g), (c0 + b) % ListLen(g[0])>> : a \in {0, 1}, b \in {0, 1}}

\* The live cells of g form exactly one 2x2 block.
IsBlock(g) == \E ij \in CellsOf(g) : LiveCells(g) = BlockCells(g, ij[1], ij[2])

HorizontalLine == {<<5, 4>>, <<5, 5>>, <<5, 6>>}
VerticalLine == {<<4, 5>>, <<5, 5>>, <<6, 5>>}

\* The grid of the given shape whose live cells are those of `live`.
GridOf(shape, live) ==
    [i \in Range(shape[1]) |-> [j \in Range(shape[2]) |-> IF <<i, j>> \in live THEN 1 ELSE 0]]

\* The grids the engines are populated with: every block on the small
\* grids, the horizontal line on the large ones.
Patterns(i, w, h) ==
    IF <<w, h>> \in BlockDims
    THEN {GridOf(Shape(i, w, h), BlockCells(GridOf(Shape(i, w, h), {}), r0, c0)) :
              r0 \in Range(Shape(i, w, h)[1]), c0 \in Range(Shape(i, w, h)[2])}
    ELSE {GridOf(Shape(i, w, h), HorizontalLine)}

\* A probability with which a cell can be drawn alive and can be drawn dead.
PatternProb == CHOOSE prob \in ValidProbs : CellOutcomes(prob) = {0, 1}

\* game = <class>(width, height); game.populate_random(prob), drawing a pattern
InitPatterns ==
    /\ impl \in Impls
    /\ \E d \in BlockDims \cup BlinkerDims :
         /\ width = d[1]
         /\ height = d[2]
         /\ \E drawn \in Patterns(impl, d[1], d[2]) :
              /\ drawn \in DrawnGrids(impl, d[1], d[2], PatternProb)
              /\ \E new \in {GameOfLife_init(impl, d[1], d[2])} :
                 \E made \in {Engine_populate_random(impl, new.grids.cells, new.grids.fates,
                                                     new.grids.ages, drawn, d[1], d[2])} :
                    /\ generation = new.generation
                    /\ cells = made.cells
                    /\ fates = made.fates
                    /\ ages = made.ages
                    /\ prevCells = made.cells
                    /\ prevFates = made.fates
                    /\ unchanged = IF impl \in FullImpls THEN PerCell(made.cells, 0) ELSE NoGrid
                    /\ zeroStart = IF impl \in FullImpls
                                   THEN AgeIsZero(made.cells, made.ages) ELSE NoGrid
                    /\ draws = d[1] * d[2]
    /\ lastOp = "populate_random"
    /\ lastProb = PatternProb
    /\ calls = 0
    /\ raised = NoError
    /\ app = NoApp
    /\ legacy = NoLegacy

NextPatterns == NextGeneration

SpecPatterns == InitPatterns /\ [][NextPatterns]_vars

---------------------------------------------------------------------------
(* C12: still life.  On a toroidal grid of any size at least 4x4, a grid   *)
(* whose only live cells form a 2x2 block (at any position, also across    *)
(* the wrapped edges) has exactly the same live cells after one            *)
(* next_generation, and so after any number of them.                       *)
C12_BlockIsStill ==
    (width >= 4 /\ height >= 4 /\ IsBlock(prevCells)) =>
        /\ cells = prevCells
        /\ IsBlock(cells)

\* Two calls of next_generation have run on a 5 x 4 GamePython grid whose
\* block lies across both wrapped edges.
C12_Witness ==
    /\ impl = "GamePython"
    /\ width = 5 /\ height = 4
    /\ lastOp = "next_generation"
    /\ calls = 2
    /\ LiveCells(cells) = {<<3, 4>>, <<3, 0>>, <<0, 4>>, <<0, 0>>}

---------------------------------------------------------------------------
(* C13: oscillator.  On a toroidal grid of at least 10x10 whose only live  *)
(* cells are (5,4), (5,5), (5,6), one next_generation leaves exactly the   *)
(* vertical line (4,5), (5,5), (6,5) alive and a second one restores       *)
(* exactly (5,4), (5,5), (5,6): the pattern has period 2.                  *)
C13_BlinkerHasPeriodTwo ==
    (width >= 10 /\ height >= 10) =>
        /\ calls % 2 = 0 => LiveCells(cells) = HorizontalLine
        /\ calls % 2 = 1 => LiveCells(cells) = VerticalLine
        /\ (lastOp = "next_generation" /\ LiveCells(prevCells) = HorizontalLine)
              => LiveCells(cells) = VerticalLine
        /\ (lastOp = "next_generation" /\ LiveCells(prevCells) = VerticalLine)
              => LiveCells(cells) = HorizontalLine

\* The second call has restored the horizontal line.
C13_Witness ==
    /\ width >= 10 /\ height >= 10
    /\ calls = 2
    /\ LiveCells(prevCells) = VerticalLine
    /\ LiveCells(cells) = HorizontalLine

---------------------------------------------------------------------------
(* C14: right after the construction of an engine of any positive size,    *)
(* and right after the re-initialisation of its cells by reset(), every    *)
(* cell is dead, generation is 1 and, in the full engines, every fate is   *)
(* StayDead and every age is 0.                                            *)
C14_FreshEngineIsEmpty ==
    (lastOp \in {"__init__", "reset"} /\ width > 0 /\ height > 0) =>
        /\ generation = 1
        /\ Cardinality(CellsOf(cells)) = width * height
        /\ \A ij \in CellsOf(cells) : cells[ij[1]][ij[2]] = 0
        /\ impl \in FullImpls =>
              /\ CellsOf(fates) = CellsOf(cells)
              /\ CellsOf(ages) = CellsOf(cells)
              /\ \A ij \in CellsOf(cells) :
                    /\ fates[ij[1]][ij[2]] = StayDead
                    /\ ages[ij[1]][ij[2]] = 0
                    /\ fate(ij[1], ij[2]) = StayDead
                    /\ age(ij[1], ij[2]) = 0

\* reset() has run on a 3 x 2 GameNumPy object.
C14_Witness ==
    /\ impl = "GameNumPy"
    /\ lastOp = "reset"
    /\ width = 3 /\ height = 2
    /\ generation = 1

---------------------------------------------------------------------------
(* Construction with any integer width and height: GameOfLife.__init__     *)
(* stores the arguments as they are and calls _init.  TorusGrid.__init__   *)
(* iterates over range(height) and range(width), which are empty for a     *)
(* dimension of 0 or less; np.zeros raises ValueError for a negative       *)
(* dimension and returns an empty array for a dimension of 0.              *)

\* The sizes a constructor can be called with: -1 .. MaxDim each way.
AnyDims == {d \in ((-1) .. MaxDim) \X ((-1) .. MaxDim) : d[1] * d[2] <= MaxCells}

\* np.zeros((n0, n1)) raises ValueError (negative dimensions are not allowed)
np_zeros_raises(n0, n1) == n0 < 0 \/ n1 < 0

\* The exception <class i>(w, h) ends with, if any.
Constructor_raises(i, w, h) ==
    IF i \in NumPyImpls /\ np_zeros_raises(w, h) THEN "ValueError" ELSE NoError

\* game = <class>(width, height)
InitConstruct ==
    /\ impl \in Impls
    /\ \E d \in AnyDims :
         /\ width = d[1]
         /\ height = d[2]
         /\ raised = Constructor_raises(impl, d[1], d[2])
         /\ \E made \in {IF Constructor_raises(impl, d[1], d[2]) = NoError
                         THEN GameOfLife_init(impl, d[1], d[2])
                         ELSE [generation |-> 1,
                               grids |-> [cells |-> NoGrid, fates |-> NoGrid, ages |-> NoGrid]]} :
               /\ generation = made.generation
               /\ cells = made.grids.cells
               /\ fates = made.grids.fates
               /\ ages = made.grids.ages
               /\ prevCells = made.grids.cells
               /\ prevFates = made.grids.fates
               /\ unchanged = IF impl \in FullImpls THEN PerCell(made.grids.cells, 0) ELSE NoGrid
               /\ zeroStart = IF impl \in FullImpls
                              THEN AgeIsZero(made.grids.cells, made.grids.ages) ELSE NoGrid
    /\ lastOp = "__init__"
    /\ lastProb = NoProb
    /\ draws = 0
    /\ calls = 0
    /\ app = NoApp
    /\ legacy = NoLegacy

NextConstruct == Reset

SpecConstruct == InitConstruct /\ [][NextConstruct]_vars

(* C15: constructing a grid or an engine with a width or a height of 0 (or *)
(* negative) fails with an InvalidDimensions error at construction time;   *)
(* no engine object with a zero or negative dimension ever exists.         *)
C15_InvalidDimensionsRaised ==
    /\ (lastOp = "__init__" /\ (width <= 0 \/ height <= 0)) => raised = "InvalidDimensions"
    /\ Constructed => (width > 0 /\ height > 0)

---------------------------------------------------------------------------
(* C16: populate_random called with a probability below 0.0 or above 1.0   *)
(* signals an InvalidProbability error and leaves cells, fates, ages and   *)
(* generation unchanged; the engine does not behave as if the probability  *)
(* had been clamped to [0.0, 1.0] (all dead for p < 0, all alive for       *)
(* p > 1).                                                                 *)
C16_InvalidProbabilityRaised ==
    (lastOp = "populate_random" /\ lastProb \notin ValidProbs) =>
        /\ raised = "InvalidProbability"
        /\ ~(lastProb < 0 /\ \A ij \in CellsOf(cells) : cells[ij[1]][ij[2]] = 0)
        /\ ~(lastProb > RandScale /\ \A ij \in CellsOf(cells) : cells[ij[1]][ij[2]] = 1)

---------------------------------------------------------------------------
(* C17: the engine's reset operation sets generation back to 1 and re-runs *)
(* populate_random: after reset() returns, the cell grid is a fresh random *)
(* population (reset has drawn every cell; every cell configuration the    *)
(* probability allows is a possible post-reset grid), with fates           *)
(* recomputed from it and all ages 0.                                      *)
C17_ResetRepopulates ==
    lastOp = "reset" =>
        /\ generation = 1
        /\ draws = width * height
        /\ impl \in FullImpls =>
              \A ij \in CellsOf(cells) :
                 /\ fates[ij[1]][ij[2]] = Classify(cells, ij[1], ij[2])
                 /\ ages[ij[1]][ij[2]] = 0

---------------------------------------------------------------------------
LightImpls == Impls \ FullImpls

(* C18: in the light engines (GamePythonLight, GameNumPyLight), in every   *)
(* reachable state fate(r,c) is Survive when the cell is alive and         *)
(* StayDead when it is dead (never Birth, DeathByIsolation or              *)
(* DeathByOvercrowding), and age(r,c) returns the same fixed sentinel      *)
(* (1000) for every cell and every generation.                             *)
C18_LightFateAndAge ==
    impl \in LightImpls =>
        /\ \A ij \in CellsOf(cells) :
              /\ cells[ij[1]][ij[2]] = 1 => fate(ij[1], ij[2]) = Survive
              /\ cells[ij[1]][ij[2]] = 0 => fate(ij[1], ij[2]) = StayDead
        /\ \A r \in Coords : \A c \in Coords :
              /\ fate(r, c) \in {Survive, StayDead}
              /\ age(r, c) = 1000

\* A GamePythonLight grid in its third generation with a live cell that is
\* about to die and a dead cell.
C18_Witness ==
    /\ impl = "GamePythonLight"
    /\ lastOp = "next_generation"
    /\ generation = 3
    /\ \E ij \in CellsOf(cells) :
          /\ cells[ij[1]][ij[2]] = 1
          /\ LifeRule(cells, ij[1], ij[2]) = 0
          /\ fate(ij[1], ij[2]) = Survive
    /\ \E ij \in CellsOf(cells) : cells[ij[1]][ij[2]] = 0

---------------------------------------------------------------------------
\* The cells GamePython holds one next_generation after being given the
\* cell grid g (its fates are those populate_random computes from g).
FullStepCells(g, w, h) ==
    GamePython_step(g, GamePython_compute_fates(g, TorusGrid(w, h, StayDead), w, h),
                    TorusGrid(w, h, 0), w, h).cells

(* C19: GamePythonLight and GamePython started from the same cell grid     *)
(* have identical cell grids and identical generation counters after any   *)
(* number of next_generation calls: from every cell grid either engine     *)
(* reaches, one step of the light engine and one step of the full engine   *)
(* give the same cells, and both count the calls alike.                    *)
C19_LightRefinesFull ==
    /\ impl = "GamePython" =>
          /\ GamePythonLight_step(cells, width, height)
                = GamePython_step(cells, fates, ages, width, height).cells
          /\ lastOp = "next_generation" =>
                cells = GamePythonLight_step(prevCells, width, height)
    /\ impl = "GamePythonLight" =>
          /\ GamePythonLight_step(cells, width, height) = FullStepCells(cells, width, height)
          /\ lastOp = "next_generation" => cells = FullStepCells(prevCells, width, height)
    /\ impl \in PythonImpls => generation = 1 + calls

\* The second call in a row has changed the cells of a GamePythonLight
\* object, leaving some alive.
C19_Witness ==
    /\ impl = "GamePythonLight"
    /\ lastOp = "next_generation"
    /\ calls = 2
    /\ cells # prevCells
    /\ \E ij \in CellsOf(cells) : cells[ij[1]][ij[2]] = 1

---------------------------------------------------------------------------
(* C20: on every grid with width > 0 and height > 0 (grids with a          *)
(* dimension of 1 or 2 included), the live-neighbour count of a cell is    *)
(* taken over the 8 surrounding cells and excludes the cell itself: the    *)
(* cell's own alive/dead state never contributes to its own neighbour      *)
(* count.                                                                  *)
C20_OwnStateNotCounted ==
    impl \in PythonImpls =>
        \A ij \in CellsOf(cells) :
            /\ Len(coords_neighbors(ij[1], ij[2])) = 8
            /\ get_number_neighbors(cells, ij[1], ij[2])
                  = get_number_neighbors(
                        GridSet(cells, ij[1], ij[2], 1 - cells[ij[1]][ij[2]]), ij[1], ij[2])

---------------------------------------------------------------------------
(* The command-line entry point (ui/__init__.py) and class CursesApp       *)
(* (ui/app.py).  A speed factor s is held as the integer 80 * s, which is  *)
(* exact for every value the handlers produce from 1.0.  The clock is not  *)
(* modelled: whether an interval has elapsed is a free choice each time    *)
(* the loop compares the clock.                                            *)

\* The application runs engines of at most MaxAppDim rows and columns and
\* MaxAppCells cells.
MaxAppDim == 2
MaxAppCells == 2
\* The cells window (CellsView) has ViewHeight rows and ViewWidth columns.
ViewHeight == 1
ViewWidth == 2

\* CursesApp.MIN_SPEED = 0.1, CursesApp.MAX_SPEED = 16.0, self.speed = 1.0
CursesApp_MIN_SPEED == 8
CursesApp_MAX_SPEED == 1280
SpeedOne == 80

\* A speed handler that ignores the paused flag
increase_speed_always(paused, speed, max_speed) ==
    IF speed * 2 > max_speed THEN max_speed ELSE speed * 2

\* A speed handler without the cap
increase_speed_uncapped(paused, speed, max_speed) ==
    IF ~paused THEN speed * 2 ELSE speed

\* increase_speed: if not self.paused: self.speed *= 2.0; if self.speed >
\* self.MAX_SPEED: self.speed = self.MAX_SPEED
increase_speed(paused, speed, max_speed) ==
    IF ~paused
    THEN (IF speed * 2 > max_speed THEN max_speed ELSE speed * 2)
    ELSE speed

\* decrease_speed: if not self.paused: self.speed /= 2.0; if self.speed <
\* self.MIN_SPEED: self.speed = self.MIN_SPEED
decrease_speed(paused, speed, min_speed) ==
    IF ~paused
    THEN (IF speed \div 2 < min_speed THEN min_speed ELSE speed \div 2)
    ELSE speed

\* The keycodes getch() returns, and -1 when no key is waiting.
Keycodes == {"q", "r", " ", "\n", "+", "-",
             "KEY_LEFT", "KEY_RIGHT", "KEY_UP", "KEY_DOWN", "KEY_RESIZE", "x"}
NoKey == "-1"

\* The handlers of the arrow keys without the modulus: the offset leaves the
\* game at its borders
handle_no_wrap(a, keycode, w, h) ==
    CASE keycode = "KEY_LEFT" -> [a EXCEPT !.pos_x = @ - 1]
      [] keycode = "KEY_RIGHT" -> [a EXCEPT !.pos_x = @ + 1]
      [] keycode = "KEY_UP" -> [a EXCEPT !.pos_y = @ - 1]
      [] keycode = "KEY_DOWN" -> [a EXCEPT !.pos_y = @ + 1]
      [] OTHER -> a

\* The handlers of a keycode that change the application object only: quit,
\* pause_unpause, increase_speed, decrease_speed, move_left, move_right,
\* move_up, move_down.  init_views (KEY_RESIZE) re-creates the views, "r" and
\* "\n" call the engine, no handler is registered for another key.
CursesApp_handle(a, keycode, w, h) ==
    CASE keycode = "q" -> [a EXCEPT !.quit = TRUE]
      [] keycode = " " -> [a EXCEPT !.paused = ~@]
      [] keycode = "+" ->
            [a EXCEPT !.speed = increase_speed(a.paused, @, CursesApp_MAX_SPEED)]
      [] keycode = "-" ->
            [a EXCEPT !.speed = decrease_speed(a.paused, @, CursesApp_MIN_SPEED)]
      [] keycode = "KEY_LEFT" -> [a EXCEPT !.pos_x = (@ - 1) % w]
      [] keycode = "KEY_RIGHT" -> [a EXCEPT !.pos_x = (@ + 1) % w]
      [] keycode = "KEY_UP" -> [a EXCEPT !.pos_y = (@ - 1) % h]
      [] keycode = "KEY_DOWN" -> [a EXCEPT !.pos_y = (@ + 1) % h]
      [] OTHER -> a

\* The reset handler without its first statement, self.game.reset()
app_reset_populates_only(i, gen, cs, fs, as, drawn, w, h) ==
    [generation |-> 1, grids |-> Engine_populate_random(i, cs, fs, as, drawn, w, h)]

\* CursesApp.reset: self.game.reset(); self.game.populate_random(prob), the
\* cells drawn being `drawn`
CursesApp_reset(i, gen, cs, fs, as, drawn, w, h) ==
    LET made == GameOfLife_reset(i, gen, w, h)
    IN [generation |-> made.generation,
        grids |-> Engine_populate_random(i, made.grids.cells, made.grids.fates,
                                         made.grids.ages, drawn, w, h)]

\* CellsView.MAP_FATES_CHARS
MAP_FATES_CHARS ==
    (StayDead :> " ") @@ (Birth :> " ") @@ (Survive :> "o")
    @@ (DeathByIsolation :> "*") @@ (DeathByOvercrowding :> "O")

\* CellsView.ink: the colour pair chosen for an age
CellsView_ink(cell_age) ==
    IF cell_age = 0 THEN 3 ELSE IF cell_age = 1 THEN 4 ELSE IF cell_age < 5 THEN 6 ELSE 1

\* The arguments main() accepts: a check that lets a bad probability through
args_ok_dimensions_only(args) == args.width > 0 /\ args.height > 0

\* main(): parser.error unless width > 0, height > 0 and 0.0 <= prob <= 1.0
main_args_ok(args) ==
    /\ ~(args.width <= 0)
    /\ ~(args.height <= 0)
    /\ (0 <= args.prob /\ args.prob <= RandScale)

\* The command lines: --width, --height, --prob
ArgSets ==
    {a \in [width : (-1) .. MaxAppDim, height : (-1) .. MaxAppDim, prob : Probs] :
        a.width * a.height <= MaxAppCells}

\* The engine as an object: what a draw pass can compare it with.
GameObject == [generation |-> generation, cells |-> cells, fates |-> fates, ages |-> ages]

\* The application actions keep no per-cell history of the engine.
AppNoHistory == UNCHANGED <<draws, prevCells, prevFates, unchanged, zeroStart, legacy>>

\* No call of the engine in this step.
EngineUntouched ==
    UNCHANGED <<impl, width, height, generation, cells, fates, ages,
                lastOp, lastProb, calls, raised>>

\* The engine after a call that left it as the record `made`.
EngineBecomes(made, op, prob, n) ==
    /\ generation' = made.generation
    /\ cells' = made.grids.cells
    /\ fates' = made.grids.fates
    /\ ages' = made.grids.ages
    /\ lastOp' = op
    /\ lastProb' = prob
    /\ calls' = n
    /\ raised' = NoError
    /\ UNCHANGED <<impl, width, height>>

\* The process is started with a command line.
InitApp ==
    /\ impl \in Impls
    /\ \E args \in ArgSets : app = [pc |-> "main", args |-> args]
    /\ legacy = NoLegacy
    /\ width = 0 /\ height = 0 /\ generation = 0
    /\ cells = NoGrid /\ fates = NoGrid /\ ages = NoGrid
    /\ prevCells = NoGrid /\ prevFates = NoGrid /\ unchanged = NoGrid /\ zeroStart = NoGrid
    /\ lastOp = NoOp /\ lastProb = NoProb /\ draws = 0 /\ calls = 0
    /\ raised = NoError

\* main(): the arguments are checked; curses_wrapped_main creates the game
\* object and the CursesApp object
AppMain ==
    /\ app.pc = "main"
    /\ AppNoHistory
    /\ IF main_args_ok(app.args)
       THEN \E color \in BOOLEAN :
            \E made \in {GameOfLife_init(impl, app.args.width, app.args.height)} :
              /\ width' = app.args.width
              /\ height' = app.args.height
              /\ generation' = made.generation
              /\ cells' = made.grids.cells
              /\ fates' = made.grids.fates
              /\ ages' = made.grids.ages
              /\ lastOp' = "__init__"
              /\ raised' = NoError
              /\ UNCHANGED <<impl, lastProb, calls>>
              /\ app' = [pc |-> "start", args |-> app.args,
                         paused |-> FALSE, quit |-> FALSE, speed |-> SpeedOne,
                         pos_x |-> 0, pos_y |-> 0, color |-> color,
                         key |-> NoKey, k |-> 0, char |-> "", ink |-> 0, snap |-> <<>>]
       ELSE /\ raised' = "SystemExit"
            /\ app' = [app EXCEPT !.pc = "exit"]
            /\ UNCHANGED <<impl, width, height, generation, cells, fates, ages,
                           lastOp, lastProb, calls>>

\* CursesApp.main before its loop: self.reset(), then the first draw
AppStart ==
    /\ app.pc = "start"
    /\ AppNoHistory
    /\ \E drawn \in DrawnGrids(impl, width, height, app.args.prob) :
       \E made \in {CursesApp_reset(impl, generation, cells, fates, ages, drawn,
                                    width, height)} :
          EngineBecomes(made, "populate_random", app.args.prob, 0)
    /\ app' = [app EXCEPT !.pc = "first_draw"]

\* keycode = self.screen.getch() and the handlers of the keycode, for the
\* keys whose handlers do not call the engine (and for no key)
AppKey ==
    /\ app.pc = "getch"
    /\ AppNoHistory
    /\ EngineUntouched
    /\ \E keycode \in (Keycodes \ {"r", "\n"}) \cup {NoKey} :
          app' = [CursesApp_handle(app, keycode, width, height)
                     EXCEPT !.pc = "gen", !.key = keycode]

\* The key "r": CursesApp.reset.  The field snap, a history of the model,
\* keeps the engine as it was before the handler, until the timer step.
AppKeyReset ==
    /\ app.pc = "getch"
    /\ AppNoHistory
    /\ \E drawn \in DrawnGrids(impl, width, height, app.args.prob) :
       \E made \in {CursesApp_reset(impl, generation, cells, fates, ages, drawn,
                                    width, height)} :
          EngineBecomes(made, "populate_random", app.args.prob, 0)
    /\ app' = [app EXCEPT !.pc = "gen", !.key = "r", !.snap = GameObject]

\* The key "\n" with a handler that steps the game while it runs
next_generation_while_running(paused, i, cs, fs, as, gen, w, h) ==
    IF ~paused
    THEN GameOfLife_next_generation(i, cs, fs, as, gen, w, h)
    ELSE [generation |-> gen, grids |-> [cells |-> cs, fates |-> fs, ages |-> as]]

\* CursesApp.next_generation: if self.paused: self.game.next_generation()
CursesApp_next_generation(paused, i, cs, fs, as, gen, w, h) ==
    IF paused
    THEN GameOfLife_next_generation(i, cs, fs, as, gen, w, h)
    ELSE [generation |-> gen, grids |-> [cells |-> cs, fates |-> fs, ages |-> as]]

\* The key "\n": the handler CursesApp.next_generation
AppKeyStep ==
    /\ app.pc = "getch"
    /\ AppNoHistory
    /\ app.paused => generation < MaxGen
    /\ \E made \in {CursesApp_next_generation(app.paused, impl, cells, fates, ages,
                                              generation, width, height)} :
          EngineBecomes(made,
                        IF app.paused THEN "next_generation" ELSE lastOp,
                        IF app.paused THEN NoProb ELSE lastProb,
                        IF app.paused THEN calls + 1 ELSE calls)
    /\ app' = [app EXCEPT !.pc = "gen", !.key = "\n"]

\* if clock - self._last_gen_time > 1.0 / self.speed: if not self.paused:
\* self.game.next_generation()
AppTimer ==
    /\ app.pc = "gen"
    /\ AppNoHistory
    /\ \E elapsed \in BOOLEAN :
          IF elapsed /\ ~app.paused
          THEN /\ generation < MaxGen
               /\ \E made \in {GameOfLife_next_generation(impl, cells, fates, ages,
                                                          generation, width, height)} :
                     EngineBecomes(made, "next_generation", NoProb, calls + 1)
          ELSE EngineUntouched
    /\ app' = [app EXCEPT !.pc = "draw", !.key = NoKey, !.snap = <<>>]


\* The cells of the view, in the order CellsView.draw visits them
ViewCells == ViewHeight * ViewWidth

\* A query that counts itself on the generation counter
query_counts_itself(obj, row, col) ==
    [game |-> [obj EXCEPT !.generation = @ + 1], fate |-> fate(row, col), age |-> age(row, col)]

\* game.fate(row, col) and game.age(row, col) on the object obj: the values
\* returned and the object the calls leave behind
CellsView_query(obj, row, col) ==
    [game |-> obj, fate |-> fate(row, col), age |-> age(row, col)]

\* A drawing of one cell that runs a generation step before its queries
draw_cell_advances(obj, row, col, pos_x, pos_y, color) ==
    LET made == GameOfLife_next_generation(impl, obj.cells, obj.fates, obj.ages,
                                           obj.generation, width, height)
    IN [game |-> [generation |-> made.generation, cells |-> made.grids.cells,
                  fates |-> made.grids.fates, ages |-> made.grids.ages],
        char |-> " ", ink |-> 0]

\* The body of the loops of CellsView.draw for the view cell (row, col)
CellsView_draw_cell(obj, row, col, pos_x, pos_y, color) ==
    LET q == CellsView_query(obj, row + pos_y, col + pos_x)
    IN [game |-> q.game,
        char |-> MAP_FATES_CHARS[q.fate],
        ink |-> IF color THEN CellsView_ink(q.age) ELSE 0]

\* The position in CursesApp.main after a draw, or after the test that
\* skips it: while not self.quit
AfterDraw == IF app.quit THEN "done" ELSE "getch"

\* self.draw() before the loop, and in the loop if clock -
\* self._last_draw_time > 1.0 / self.SCREEN_DRAW_FREQ: self.draw().
\* game_view.draw is done, cells_view.draw is about to start.
AppDraw ==
    /\ app.pc \in {"first_draw", "draw"}
    /\ AppNoHistory
    /\ EngineUntouched
    /\ \E elapsed \in BOOLEAN :
          IF elapsed \/ app.pc = "first_draw"
          THEN app' = [app EXCEPT !.pc = "draw_cells", !.k = 0, !.snap = GameObject]
          ELSE app' = [app EXCEPT !.pc = AfterDraw]

\* One iteration of the loops of CellsView.draw
AppDrawCell ==
    /\ app.pc = "draw_cells"
    /\ app.k < ViewCells
    /\ AppNoHistory
    /\ \E d \in {CellsView_draw_cell(GameObject, app.k \div ViewWidth, app.k % ViewWidth,
                                     app.pos_x, app.pos_y, app.color)} :
          /\ generation' = d.game.generation
          /\ cells' = d.game.cells
          /\ fates' = d.game.fates
          /\ ages' = d.game.ages
          /\ app' = [app EXCEPT !.k = @ + 1, !.char = d.char, !.ink = d.ink]
    /\ UNCHANGED <<impl, width, height, lastOp, lastProb, calls, raised>>

\* The end of CursesApp.draw: curses.doupdate()
AppDrawEnd ==
    /\ app.pc = "draw_cells"
    /\ app.k = ViewCells
    /\ AppNoHistory
    /\ EngineUntouched
    /\ app' = [app EXCEPT !.pc = AfterDraw, !.k = 0, !.char = "", !.ink = 0, !.snap = <<>>]

NextApp ==
    \/ AppMain
    \/ AppStart
    \/ AppKey
    \/ AppKeyReset
    \/ AppKeyStep
    \/ AppTimer
    \/ AppDraw
    \/ AppDrawCell
    \/ AppDrawEnd

SpecApp == InitApp /\ [][NextApp]_vars


\* The fields of the application object, once it exists
AppFieldsOK ==
    app.pc \in {"start", "first_draw", "getch", "gen", "draw", "draw_cells", "done"} =>
        /\ app.paused \in BOOLEAN
        /\ app.quit \in BOOLEAN
        /\ app.pos_x \in 0 .. width - 1
        /\ app.pos_y \in 0 .. height - 1
        /\ app.k \in 0 .. ViewCells


----------------------------------------------------------------------------
(* The claims about the application *)

\* The positions of CursesApp.main inside its event loop
LoopPcs == {"getch", "gen", "draw", "draw_cells"}

\* C21: in the event loop of CursesApp, while the application is paused the
\* generation counter changes only by the step key, which advances one
\* generation per press, or by the reset key, which returns it to 1; the
\* timer never advances a paused game; and while the application is not
\* paused the step key leaves the engine as it is.
C21_PausedStepsByKeyOnly ==
    [][app.pc \in LoopPcs =>
         /\ (app.pc = "getch" /\ app'.key = "\n" /\ app.paused) =>
                (generation' = generation + 1 /\ calls' = calls + 1)
         /\ (app.pc = "getch" /\ app'.key = "\n" /\ ~app.paused) =>
                (GameObject' = GameObject /\ calls' = calls)
         /\ (app.pc = "getch" /\ app'.key = "r") => generation' = 1
         /\ (app.paused /\ generation' # generation) =>
                (app.pc = "getch" /\ app'.key \in {"\n", "r"})
         /\ (app.pc = "gen" /\ app.paused) => (GameObject' = GameObject /\ calls' = calls)
         /\ (app.pc = "gen" /\ generation' # generation) =>
                (~app.paused /\ generation' = generation + 1)]_vars

\* The step key was pressed while the application was paused and the press
\* computed generation 3, the second step of the game.
C21_Witness ==
    /\ app.pc = "gen"
    /\ app.key = "\n"
    /\ app.paused
    /\ generation = 3
    /\ calls = 2
    /\ app.speed = SpeedOne


----------------------------------------------------------------------------
(* The first version of the program, src/gameoflife.py: the grids           *)
(* CellGrid and StateGrid and the class Game with its three threads.  Its   *)
(* CircularList and TorusGrid are those of gamepython.py.                   *)

\* The terminal: Game.__init__ takes the world's size from it
TermHeight == 3
TermWidth == 4

\* class States: NoChange, Birth, DeathByIsolation, DeathByOverpopulation = range(4)
States_NoChange == 0
States_Birth == 1
States_DeathByIsolation == 2
States_DeathByOverpopulation == 3

Game_MIN_SPEED == 8
Game_MAX_SPEED == 2560

\* The default of CellGrid.populate_random(prob=0.1), in tenths
CellGrid_prob == 1

\* One cell of CellGrid.populate_random: True if random.random() < prob else False
CellGrid_draw_cell(rand) == rand * 10 < CellGrid_prob * RandScale

\* The grids CellGrid.populate_random can leave
CellGrid_populate_random(w, h) ==
    [Range(h) -> [Range(w) -> {CellGrid_draw_cell(rand) : rand \in RandValues}]]

\* CellGrid.get_number_neighbours: the pairs (i, j) of range(row - 1, row + 2)
\* and range(col - 1, col + 2) other than (row, col) whose cell is true
CellGrid_get_number_neighbours(cs, row, col) ==
    LET count(k) == LET i == row - 1 + ((k - 1) \div 3)
                        j == col - 1 + ((k - 1) % 3)
                    IN IF <<i, j>> # <<row, col>> /\ GridGet(cs, i, j) THEN 1 ELSE 0
    IN count(1) + count(2) + count(3) + count(4) + count(5)
       + count(6) + count(7) + count(8) + count(9)

\* StateGrid.compute: every item of the grid is assigned in the loops
StateGrid_compute(cs, w, h) ==
    [row \in Range(h) |-> [col \in Range(w) |->
        LET number_neighours == CellGrid_get_number_neighbours(cs, row, col)
        IN IF cs[row][col]
           THEN (IF number_neighours < 2 THEN States_DeathByIsolation
                 ELSE IF number_neighours > 3 THEN States_DeathByOverpopulation
                 ELSE States_NoChange)
           ELSE (IF number_neighours = 3 THEN States_Birth ELSE States_NoChange)]]

\* apply_states without its first branch: the cells whose state is a death
\* are left alone.
apply_states_births_only(cs, st, w, h) ==
    [row \in Range(h) |-> [col \in Range(w) |->
        IF st[row][col] = States_Birth THEN TRUE ELSE cs[row][col]]]

\* CellGrid.apply_states
CellGrid_apply_states(cs, st, w, h) ==
    [row \in Range(h) |-> [col \in Range(w) |->
        IF st[row][col] \in {States_DeathByIsolation, States_DeathByOverpopulation}
        THEN FALSE
        ELSE IF st[row][col] = States_Birth THEN TRUE
        ELSE cs[row][col]]]

\* Game.__init__: the world is the terminal without its border
world_width == TermWidth - 2
world_height == TermHeight - 2

\* The keys Game.handle_keypress tells apart, and one it ignores
GameKeycodes == {"q", "r", " ", "\n", "+", "-", "KEY_RESIZE", "x"}

\* The threads that can execute Game.next_generation
Steppers == {"main", "time"}

\* The legacy program does not use the engines or the application object.
LegacyFrame ==
    UNCHANGED <<impl, width, height, generation, cells, fates, ages, lastOp, lastProb,
                draws, calls, prevCells, prevFates, unchanged, zeroStart, raised, app>>

\* The process runs: the main thread has not left Game.main
GameRuns == legacy.pc = "run" /\ legacy.main # "done"

\* main_wrapped: game = Game(stdscr)
InitLegacy ==
    /\ impl = "Game"
    /\ app = NoApp
    /\ width = 0 /\ height = 0 /\ generation = 0
    /\ cells = NoGrid /\ fates = NoGrid /\ ages = NoGrid
    /\ prevCells = NoGrid /\ prevFates = NoGrid /\ unchanged = NoGrid /\ zeroStart = NoGrid
    /\ lastOp = NoOp /\ lastProb = NoProb /\ draws = 0 /\ calls = 0
    /\ raised = NoError
    /\ \E cs \in CellGrid_populate_random(world_width, world_height) :
          legacy = [pc |-> "run",
                    cells |-> cs,
                    states |-> TorusGrid(world_width, world_height, States_NoChange),
                    generation |-> 1, speed |-> SpeedOne,
                    paused |-> FALSE, quit |-> FALSE,
                    main |-> "start", time |-> "unstarted", draw |-> "unstarted",
                    pause_state |-> FALSE,
                    loaded |-> [t \in Steppers |-> 0],
                    k |-> 0, dirty |-> FALSE,
                    drawn |-> <<>>,
                    was_reset |-> FALSE, steps |-> 0]

\* The draw thread is between the first and the last read of one
\* draw_world pass
MidPass(g) == g.draw = "state" \/ (g.draw = "cell" /\ 0 < g.k /\ g.k < world_width * world_height)

\* The Game object after a step of the main thread or of the time thread
\* that leaves it as made: dirty records that the step changed a grid
\* while g was in the middle of a draw_world pass
Observed(g, made) ==
    [made EXCEPT !.dirty = g.dirty \/ (MidPass(g) /\ (made.cells # g.cells \/ made.states # g.states))]

\* Game.main: self.thread_draw.start()
GameStartDraw ==
    /\ GameRuns /\ legacy.main = "start" /\ legacy.draw = "unstarted"
    /\ legacy' = [legacy EXCEPT !.draw = "cell"]
    /\ LegacyFrame

\* Game.main: time.sleep(1.0); self.thread_time.start()
GameStartTime ==
    /\ GameRuns /\ legacy.main = "start" /\ legacy.draw # "unstarted"
    /\ legacy' = [legacy EXCEPT !.time = "check", !.main = "getch"]
    /\ LegacyFrame

\* Game.handle_keypress for the key char, up to the first statement that
\* another thread can interleave with
Game_handle_keypress(g, char) ==
    CASE char = "KEY_RESIZE" -> [g EXCEPT !.main = "done"]
      [] char = "q" -> [g EXCEPT !.quit = TRUE, !.main = "done"]
      [] char = "r" -> [g EXCEPT !.pause_state = g.paused, !.paused = TRUE,
                                 !.main = "reset_cells",
                                 !.was_reset = TRUE, !.steps = 0]
      [] char = " " -> [g EXCEPT !.paused = ~g.paused]
      [] char = "\n" -> IF g.paused THEN [g EXCEPT !.main = "compute"] ELSE g
      [] char = "+" -> [g EXCEPT !.speed = increase_speed(g.paused, g.speed, Game_MAX_SPEED)]
      [] char = "-" -> [g EXCEPT !.speed = decrease_speed(g.paused, g.speed, Game_MIN_SPEED)]
      [] OTHER -> g

\* Game.main: char = self.screen.getch(); self.handle_keypress(char)
GameKey ==
    /\ GameRuns /\ legacy.main = "getch"
    /\ \E char \in GameKeycodes :
          /\ (char = "\n" /\ legacy.paused) => legacy.generation < MaxGen
          /\ legacy' = Game_handle_keypress(legacy, char)
    /\ LegacyFrame

\* Game.reset: self.cells = CellGrid(self.world_width, self.world_height)
GameResetCells ==
    /\ GameRuns /\ legacy.main = "reset_cells"
    /\ legacy' = Observed(legacy,
                  [legacy EXCEPT !.cells = TorusGrid(world_width, world_height, FALSE),
                                 !.main = "reset_populate"])
    /\ LegacyFrame

\* Game.reset: self.cells.populate_random()
GameResetPopulate ==
    /\ GameRuns /\ legacy.main = "reset_populate"
    /\ \E cs \in CellGrid_populate_random(world_width, world_height) :
          legacy' = Observed(legacy, [legacy EXCEPT !.cells = cs, !.drawn = cs,
                                                    !.main = "reset_states"])
    /\ LegacyFrame

\* Game.reset: self.states = StateGrid(self.world_width, self.world_height)
GameResetStates ==
    /\ GameRuns /\ legacy.main = "reset_states"
    /\ legacy' = Observed(legacy,
                  [legacy EXCEPT
                      !.states = TorusGrid(world_width, world_height, States_NoChange),
                      !.main = "reset_generation"])
    /\ LegacyFrame

\* Game.reset: self.generation = 1
GameResetGeneration ==
    /\ GameRuns /\ legacy.main = "reset_generation"
    /\ legacy' = [legacy EXCEPT !.generation = 1, !.main = "reset_restore"]
    /\ LegacyFrame

\* Game.reset: self.paused = pause_state
GameResetRestore ==
    /\ GameRuns /\ legacy.main = "reset_restore"
    /\ legacy' = [legacy EXCEPT !.paused = legacy.pause_state, !.main = "reset_return"]
    /\ LegacyFrame

\* Game.reset returns to Game.main
GameResetReturn ==
    /\ GameRuns /\ legacy.main = "reset_return"
    /\ legacy' = [legacy EXCEPT !.main = "getch", !.drawn = <<>>]
    /\ LegacyFrame

\* Game.next_generation in the thread t: self.states.compute(self.cells)
GameCompute(t) ==
    /\ GameRuns /\ legacy[t] = "compute"
    /\ legacy' = Observed(legacy,
                  [legacy EXCEPT
                      !.states = StateGrid_compute(legacy.cells, world_width, world_height),
                      ![t] = "apply"])
    /\ LegacyFrame

\* Game.next_generation in the thread t: self.cells.apply_states(self.states)
GameApply(t) ==
    /\ GameRuns /\ legacy[t] = "apply"
    /\ legacy' = Observed(legacy,
                  [legacy EXCEPT
                      !.cells = CellGrid_apply_states(legacy.cells, legacy.states,
                                                      world_width, world_height),
                      ![t] = "load"])
    /\ LegacyFrame

\* Game.next_generation in the thread t: self.generation += 1, the read of
\* the attribute
GameLoad(t) ==
    /\ GameRuns /\ legacy[t] = "load"
    /\ legacy.generation <= MaxGen
    /\ legacy' = [legacy EXCEPT !.loaded[t] = legacy.generation, ![t] = "store"]
    /\ LegacyFrame

\* Game.next_generation in the thread t: self.generation += 1, the write of
\* the attribute; then the return to Game.main or to the loop of _thread_time.
\* The fields was_reset and steps are histories of the model: whether the
\* key r was ever handled, and, as long as it was not, the calls of
\* next_generation that have returned.
GameStore(t) ==
    /\ GameRuns /\ legacy[t] = "store"
    /\ legacy' = [legacy EXCEPT !.generation = legacy.loaded[t] + 1,
                                !.loaded[t] = 0,
                                !.steps = IF legacy.was_reset THEN 0 ELSE @ + 1,
                                ![t] = IF t = "main" THEN "getch" ELSE "check"]
    /\ LegacyFrame

\* Game._thread_time: if not self.paused: self.next_generation() (entered),
\* else: time.sleep(0.02)
GameTimeCheck ==
    /\ GameRuns /\ legacy.time = "check"
    /\ ~legacy.paused
    /\ legacy.generation < MaxGen
    /\ legacy' = [legacy EXCEPT !.time = "compute"]
    /\ LegacyFrame

\* Game.draw_world: the read of self.cells[row][col] for the cell number k;
\* a new pass starts with no change seen
GameDrawCell ==
    /\ GameRuns /\ legacy.draw = "cell"
    /\ legacy.k < world_width * world_height
    /\ legacy' = [legacy EXCEPT !.draw = "state",
                                !.dirty = IF legacy.k = 0 THEN FALSE ELSE @]
    /\ LegacyFrame

\* Game.draw_world: the read of self.states[row][col], and addch
GameDrawState ==
    /\ GameRuns /\ legacy.draw = "state"
    /\ legacy' = [legacy EXCEPT !.k = @ + 1, !.draw = "cell"]
    /\ LegacyFrame

\* Game.draw: draw_world is over; draw_screen; _thread_draw sleeps and loops
GameDrawEnd ==
    /\ GameRuns /\ legacy.draw = "cell"
    /\ legacy.k = world_width * world_height
    /\ legacy' = [legacy EXCEPT !.k = 0, !.dirty = FALSE]
    /\ LegacyFrame

NextLegacy ==
    \/ GameStartDraw
    \/ GameStartTime
    \/ GameKey
    \/ GameResetCells
    \/ GameResetPopulate
    \/ GameResetStates
    \/ GameResetGeneration
    \/ GameResetRestore
    \/ GameResetReturn
    \/ \E t \in Steppers : GameCompute(t)
    \/ \E t \in Steppers : GameApply(t)
    \/ \E t \in Steppers : GameLoad(t)
    \/ \E t \in Steppers : GameStore(t)
    \/ GameTimeCheck
    \/ GameDrawCell
    \/ GameDrawState
    \/ GameDrawEnd

SpecLegacy == InitLegacy /\ [][NextLegacy]_vars

\* The fields of the Game object
GameFieldsOK ==
    legacy.pc = "run" =>
        /\ legacy.generation \in 1 .. MaxGen + 1
        /\ legacy.paused \in BOOLEAN
        /\ legacy.k \in 0 .. world_width * world_height


----------------------------------------------------------------------------
(* The two programs of the repository: the package's command gameoflife     *)
(* and the script src/gameoflife.py.                                        *)

InitPrograms == InitApp \/ InitLegacy

NextPrograms == NextApp \/ NextLegacy

SpecPrograms == InitPrograms /\ [][NextPrograms]_vars

\* The CursesApp object exists
AppExists == app.pc \in LoopPcs \cup {"start", "first_draw", "done"}

\* speed is within [lo, hi], and a speed that can be halved without
\* reaching the floor is a multiple of 2 units: the halves are exact
SpeedInRange(speed, lo, hi) ==
    /\ lo <= speed /\ speed <= hi
    /\ speed > 0
    /\ speed >= 2 * lo => speed % 2 = 0

\* new is old doubled and capped at hi, or old halved and floored at lo
SpeedStep(old, new, lo, hi) ==
    \/ new = (IF 2 * old > hi THEN hi ELSE 2 * old)
    \/ new = (IF old < 2 * lo THEN lo ELSE old \div 2)

\* C22: after any sequence of key presses the speed factor is within
\* [MIN_SPEED, MAX_SPEED], 0.1 to 16.0 in CursesApp and 0.1 to 32.0 in the
\* legacy Game; it starts at 1.0, an increase doubles it and caps it at
\* MAX_SPEED, a decrease halves it and floors it at MIN_SPEED; so 1/speed is
\* positive and finite.
C22_SpeedWithinBounds ==
    /\ [](/\ AppExists =>
                SpeedInRange(app.speed, CursesApp_MIN_SPEED, CursesApp_MAX_SPEED)
          /\ app.pc = "start" => app.speed = SpeedOne
          /\ legacy.pc = "run" =>
                SpeedInRange(legacy.speed, Game_MIN_SPEED, Game_MAX_SPEED)
          /\ (legacy.pc = "run" /\ legacy.main = "start") => legacy.speed = SpeedOne)
    /\ [][/\ (AppExists /\ app'.speed # app.speed) =>
                /\ app.pc = "getch"
                /\ SpeedStep(app.speed, app'.speed, CursesApp_MIN_SPEED, CursesApp_MAX_SPEED)
                /\ app'.key = "+" => app'.speed > app.speed
                /\ app'.key = "-" => app'.speed < app.speed
          /\ (legacy.pc = "run" /\ legacy'.speed # legacy.speed) =>
                /\ legacy.main = "getch"
                /\ SpeedStep(legacy.speed, legacy'.speed, Game_MIN_SPEED, Game_MAX_SPEED)]_vars

\* The increase key was pressed at a speed above half of MAX_SPEED and the
\* speed was capped at MAX_SPEED.
C22_Witness ==
    /\ app.pc = "gen"
    /\ app.key = "+"
    /\ ~app.paused
    /\ app.speed = CursesApp_MAX_SPEED


\* C23: in the event loop of CursesApp no draw pass overlaps a mutation of
\* the engine: a draw pass starts only from the draw step of an iteration,
\* which follows the iteration's timer step, which follows its key handlers
\* (or, for the first draw, the reset before the loop), and between the start
\* of a pass and its last cell query no next_generation, reset or
\* populate_random runs.
C23_NoMutationDuringDraw ==
    [][/\ (app'.pc = "draw_cells" /\ app.pc # "draw_cells") =>
              app.pc \in {"first_draw", "draw"}
       /\ (AppExists /\ app'.pc = "draw" /\ app.pc # "draw") => app.pc = "gen"
       /\ (AppExists /\ app'.pc = "gen" /\ app.pc # "gen") => app.pc = "getch"
       /\ (AppExists /\ app'.pc = "first_draw") => app.pc = "start"
       /\ (app.pc = "draw_cells" \/ app'.pc = "draw_cells") =>
              /\ GameObject' = GameObject
              /\ lastOp' = lastOp
              /\ calls' = calls]_vars

\* A draw pass is between its first and its last cell query, in an
\* iteration whose timer step has computed generation 2.
C23_Witness ==
    /\ app.pc = "draw_cells"
    /\ app.k = 1
    /\ ViewCells > 1
    /\ ~app.paused
    /\ lastOp = "next_generation"
    /\ generation = 2
    /\ app.snap.generation = 2

\* C24: the accessors fate(r, c) and age(r, c) of the four engines, and a
\* whole CellsView.draw pass that calls them for every cell of the view at
\* any pan offset, leave the cells, fates, ages and generation of the engine
\* as they were when the pass started.
C24_DrawLeavesEngineUnchanged ==
    app.pc = "draw_cells" =>
        /\ GameObject = app.snap
        /\ app.pos_x \in Range(width) /\ app.pos_y \in Range(height)

\* A complete draw pass of a full engine at a pan offset other than (0, 0),
\* over a grid with a live cell, in colour: fate and age were called for
\* every cell of the view.
C24_Witness ==
    /\ app.pc = "draw_cells"
    /\ app.k = ViewCells
    /\ app.color
    /\ impl \in FullImpls
    /\ app.pos_x + app.pos_y > 0
    /\ generation > 1
    /\ \E row \in Range(height), col \in Range(width) : fate(row, col) = Survive


\* The command line of the process is one main() must reject
BadArgs ==
    \/ app.args.width <= 0
    \/ app.args.height <= 0
    \/ app.args.prob < 0
    \/ app.args.prob > RandScale

\* C25: the command-line entry point rejects bad input before any engine
\* exists: with width <= 0, height <= 0 or a probability outside [0.0, 1.0]
\* main() reports an error and neither constructs a game object nor starts
\* the application loop; an engine is only ever constructed with positive
\* dimensions and populated with a probability of [0, 1].
C25_BadInputRejectedFirst ==
    /\ (app.pc \notin {"none", "main"} /\ BadArgs) =>
           /\ app.pc = "exit"
           /\ raised = "SystemExit"
    /\ app.pc = "exit" =>
           /\ BadArgs
           /\ ~Constructed
           /\ lastOp = NoOp
           /\ cells = NoGrid
    /\ (app.pc # "none" /\ Constructed) =>
           /\ width > 0 /\ height > 0
           /\ width = app.args.width /\ height = app.args.height
           /\ AppExists
    /\ (app.pc # "none" /\ lastOp = "populate_random") => lastProb \in ValidProbs

\* main() has rejected a command line whose dimensions are positive and
\* whose probability is above 1.0.
C25_Witness ==
    /\ app.pc = "exit"
    /\ app.args.width > 0
    /\ app.args.height > 0
    /\ app.args.prob > RandScale
    /\ raised = "SystemExit"


\* The values of class Fate
Fates == {StayDead, Birth, Survive, DeathByIsolation, DeathByOvercrowding}

\* g is a grid with the items of the grid like, each of them in the set values
GridLike(g, like, values) ==
    /\ DOMAIN g = DOMAIN like
    /\ \A row \in DOMAIN g :
          /\ DOMAIN g[row] = DOMAIN like[row]
          /\ \A col \in DOMAIN g[row] : g[row][col] \in values

\* C26: next_generation is total on every engine state with width > 0 and
\* height > 0, the 1x1 grid and the other grids smaller than the 3x3
\* neighbourhood included: it completes without an error, with generation
\* incremented and with a state for each of the width * height cells; no
\* engine state is terminal: next_generation is enabled in every reachable
\* state (below the bound MaxGen of the model).
C26_NextGenerationIsTotal ==
    (Constructed /\ width > 0 /\ height > 0) =>
        LET made == GameOfLife_next_generation(impl, cells, fates, ages, generation,
                                               width, height)
        IN /\ made.generation = generation + 1
           /\ Cardinality(DOMAIN cells) * Cardinality(DOMAIN cells[0]) = width * height
           /\ GridLike(made.grids.cells, cells, {0, 1})
           /\ impl \in FullImpls =>
                 /\ GridLike(made.grids.fates, cells, Fates)
                 /\ GridLike(made.grids.ages, cells, Nat)
           /\ raised = NoError
           /\ generation < MaxGen => ENABLED NextGeneration

\* next_generation has been called twice on a 1x1 grid of GameNumPy whose
\* only cell was dead before the second call.
C26_Witness ==
    /\ width = 1 /\ height = 1
    /\ lastOp = "next_generation"
    /\ calls = 2
    /\ generation = 3
    /\ GridGet(prevCells, 0, 0) = 0
    /\ impl = "GameNumPy"


\* The engine object that construction followed by populate_random leaves
\* when the cells drawn are `drawn`: a state no earlier call has a part in
FreshlyPopulated(drawn) ==
    LET made == GameOfLife_init(impl, width, height)
        grids == Engine_populate_random(impl, made.grids.cells, made.grids.fates,
                                        made.grids.ages, drawn, width, height)
    IN [generation |-> 1, cells |-> grids.cells, fates |-> grids.fates, ages |-> grids.ages]

\* The reset action of the application has just run
AfterAppReset == app.pc = "first_draw" \/ (app.pc = "gen" /\ app.key = "r")

\* C27: the reset action of the application, game.reset() followed by
\* game.populate_random(prob), re-creates the whole simulation state of both
\* full engines: afterwards generation is 1, every age is 0, and cells and
\* fates are those of a new engine populated with the same draws, so that
\* engines with different histories and the same draws are in the same state.
C27_AppResetRecreatesState ==
    (AfterAppReset /\ impl \in FullImpls) =>
        /\ generation = 1
        /\ \A row \in Range(height), col \in Range(width) : age(row, col) = 0
        /\ \E drawn \in DrawnGrids(impl, width, height, app.args.prob) :
              /\ cells = drawn
              /\ GameObject = FreshlyPopulated(drawn)

\* The reset key was pressed on a GameNumPy engine at generation 3 that had
\* a cell of age 2; the engine now has a live cell.
C27_Witness ==
    /\ app.pc = "gen"
    /\ app.key = "r"
    /\ impl = "GameNumPy"
    /\ app.snap.generation = 3
    /\ \E i \in DOMAIN app.snap.ages : \E j \in DOMAIN app.snap.ages[i] :
          app.snap.ages[i][j] = 2
    /\ \E i \in DOMAIN cells : \E j \in DOMAIN cells[i] : cells[i][j] = 1


\* C28: the speed factor changes only while the game is not paused: an
\* increase or decrease key received while paused leaves the speed as it
\* is, and pausing, unpausing, stepping, resetting and panning never change
\* it; so the speed after unpausing is the speed at the moment of pausing.
C28_SpeedFrozenWhilePaused ==
    [][/\ AppExists =>
             /\ app.paused => app'.speed = app.speed
             /\ app'.speed # app.speed =>
                   /\ app.pc = "getch"
                   /\ app'.key \in {"+", "-"}
                   /\ ~app.paused
                   /\ app'.paused = app.paused
                   /\ GameObject' = GameObject
                   /\ <<app'.pos_x, app'.pos_y>> = <<app.pos_x, app.pos_y>>
       /\ legacy.pc = "run" =>
             /\ legacy.paused => legacy'.speed = legacy.speed
             /\ legacy'.speed # legacy.speed =>
                   /\ legacy.main = "getch" /\ legacy'.main = "getch"
                   /\ ~legacy.paused
                   /\ legacy'.paused = legacy.paused
                   /\ legacy'.generation = legacy.generation
                   /\ legacy'.cells = legacy.cells]_vars

\* The increase key was pressed while the application was paused at the
\* speed 2.0, and the speed is still 2.0.
C28_Witness ==
    /\ app.pc = "gen"
    /\ app.key = "+"
    /\ app.paused
    /\ app.speed = 2 * SpeedOne


----------------------------------------------------------------------------
(* The claims about the threads of the legacy Game *)

\* C29: in the legacy Game, reset() uses the paused flag as a mutex against
\* the time thread: while reset() holds the flag, the cells are the grid it
\* has populated and, once it has set generation to 1, generation is 1; so
\* reset() returns with generation = 1 and with the new cells untouched by a
\* generation step that started before the reset.  (In the states named
\* here paused is True, so that no step can start.)
C29_ResetExcludesTimeThread ==
    legacy.pc = "run" =>
        /\ legacy.main \in {"reset_states", "reset_generation", "reset_restore"} =>
               legacy.cells = legacy.drawn
        /\ legacy.main = "reset_restore" => legacy.generation = 1
        /\ legacy.main \in {"reset_cells", "reset_populate", "reset_states",
                             "reset_generation", "reset_restore"} => legacy.paused


\* C30: in the legacy Game, one draw_world pass of the draw thread reads
\* cells and states of a single generation: no generation step of the time
\* thread or of the Enter key, and no reset, changes the cells or the states
\* between the first and the last cell read of the pass.
C30_DrawReadsOneGeneration ==
    legacy.pc = "run" => ~legacy.dirty

\* The thread t is executing Game.next_generation
InNextGeneration(t) == legacy[t] \in {"compute", "apply", "load", "store"}

\* C31: in the legacy Game, next_generation is never executed by the main
\* thread (Enter while paused) and by the time thread at the same time, and
\* no increment of generation is lost: without a reset, generation is 1 plus
\* the number of next_generation calls that have returned, whenever no call
\* is in progress.
C31_StepsAreExclusive ==
    legacy.pc = "run" =>
        /\ ~(InNextGeneration("main") /\ InNextGeneration("time"))
        /\ (~legacy.was_reset /\ ~InNextGeneration("main") /\ ~InNextGeneration("time")) =>
               legacy.generation = 1 + legacy.steps


---------------------------------------------------------------------------
(* The legacy engine alone: the grids of cells and of states driven by one  *)
(* thread, on worlds large enough for births and deaths of both kinds to    *)
(* happen in one generation.                                                *)

MaxWorldDim == 4
MaxWorldCells == 16

\* The sizes of the worlds
WorldDims ==
    {d \in (1..MaxWorldDim) \X (1..MaxWorldDim) : d[1] * d[2] <= MaxWorldCells}

\* Game.draw_world: the colour pair a cell is drawn in
Game_draw_world_ink(st, row, col) ==
    IF st[row][col] = States_Birth THEN 1 ELSE 0

\* Game.draw_world: whether the cell is drawn with CHAR_CELL_LIVE
Game_draw_world_live(cs, row, col) == cs[row][col] = TRUE

\* Game.next_generation, by one thread alone
Game_next_generation(cs, gen, w, h) ==
    LET computed == StateGrid_compute(cs, w, h)
    IN [cells |-> CellGrid_apply_states(cs, computed, w, h),
        states |-> computed,
        generation |-> gen + 1]

\* The engines and the application object are not used.
WorldFrame ==
    UNCHANGED <<impl, width, height, generation, cells, fates, ages, lastOp, lastProb,
                draws, calls, prevCells, prevFates, unchanged, zeroStart, raised, app>>

\* Game.__init__ on a terminal whose world has the size d
InitWorld ==
    /\ impl = "Game"
    /\ app = NoApp
    /\ generation = 0
    /\ cells = NoGrid /\ fates = NoGrid /\ ages = NoGrid
    /\ prevCells = NoGrid /\ prevFates = NoGrid /\ unchanged = NoGrid /\ zeroStart = NoGrid
    /\ lastOp = NoOp /\ lastProb = NoProb /\ draws = 0 /\ calls = 0
    /\ raised = NoError
    /\ \E d \in WorldDims :
          /\ width = d[1]
          /\ height = d[2]
          /\ \E cs \in CellGrid_populate_random(d[1], d[2]) :
                legacy = [pc |-> "engine",
                          op |-> "init",
                          cells |-> cs,
                          states |-> TorusGrid(d[1], d[2], States_NoChange),
                          generation |-> 1,
                          before |-> cs]

\* Game.next_generation; before keeps the cells the call started from
WorldNextGeneration ==
    /\ legacy.pc = "engine"
    /\ legacy.generation < MaxGen
    /\ \E made \in {Game_next_generation(legacy.cells, legacy.generation, width, height)} :
          legacy' = [legacy EXCEPT !.op = "next_generation",
                                   !.before = legacy.cells,
                                   !.cells = made.cells,
                                   !.states = made.states,
                                   !.generation = made.generation]
    /\ WorldFrame

NextWorld == WorldNextGeneration

SpecWorld == InitWorld /\ [][NextWorld]_vars

\* A next_generation call of the legacy engine has just completed
WorldStepped == legacy.pc = "engine" /\ legacy.op = "next_generation"

\* C32: in the legacy engine, after a next_generation call completes, the
\* state of a cell is Birth exactly if the cell was dead before the call and
\* is alive after it, DeathByIsolation or DeathByOverpopulation exactly if it
\* was alive before and is dead after, and NoChange exactly if the cell did
\* not change; the cells drawn in the colour of the newly born are exactly
\* the live cells that were dead before the call.
C32_StatesDescribeTransition ==
    WorldStepped =>
        \A row \in Range(height), col \in Range(width) :
            LET was == legacy.before[row][col]
                is == legacy.cells[row][col]
                state == legacy.states[row][col]
            IN /\ state \in {States_NoChange, States_Birth,
                             States_DeathByIsolation, States_DeathByOverpopulation}
               /\ state = States_Birth <=> (~was /\ is)
               /\ state \in {States_DeathByIsolation, States_DeathByOverpopulation}
                      <=> (was /\ ~is)
               /\ state = States_NoChange <=> (was = is)
               /\ Game_draw_world_ink(legacy.states, row, col) = 1
                      <=> (Game_draw_world_live(legacy.cells, row, col) /\ ~was)

\* One call has produced a birth, a death of each kind, a survivor and a
\* cell that stayed dead
C32_Witness ==
    /\ WorldStepped
    /\ \E row \in Range(height), col \in Range(width) :
          legacy.states[row][col] = States_Birth /\ legacy.cells[row][col]
    /\ \E row \in Range(height), col \in Range(width) :
          legacy.states[row][col] = States_DeathByIsolation /\ ~legacy.cells[row][col]
    /\ \E row \in Range(height), col \in Range(width) :
          legacy.states[row][col] = States_DeathByOverpopulation /\ ~legacy.cells[row][col]
    /\ \E row \in Range(height), col \in Range(width) :
          legacy.states[row][col] = States_NoChange /\ legacy.cells[row][col]
    /\ \E row \in Range(height), col \in Range(width) :
          legacy.states[row][col] = States_NoChange /\ ~legacy.cells[row][col]

---------------------------------------------------------------------------
\* C33: in the full engines, in every state reachable by construction,
\* reset, populate_random and next_generation, every age is a non-negative
\* integer and the age of a cell is at most generation - 1.
C33_AgeBoundedByGeneration ==
    (impl \in FullImpls /\ raised = NoError) =>
        /\ \A ij \in CellsOf(ages) :
              ages[ij[1]][ij[2]] \in Nat /\ ages[ij[1]][ij[2]] <= generation - 1
        /\ \A ij \in CellsOf(cells) :
              age(ij[1], ij[2]) \in Nat /\ age(ij[1], ij[2]) <= generation - 1

\* After two next_generation calls one cell has age generation - 1 = 2 and
\* another has a smaller age
C33_Witness ==
    /\ impl \in FullImpls /\ raised = NoError
    /\ lastOp = "next_generation"
    /\ generation = 3
    /\ \E ij \in CellsOf(cells) : age(ij[1], ij[2]) = generation - 1
    /\ \E ij \in CellsOf(cells) : age(ij[1], ij[2]) < generation - 1

---------------------------------------------------------------------------
(* Panning: the arrow keys of CursesApp on games of every small size.  The  *)
(* field trail, a history of the model, keeps the last arrow keys with the  *)
(* offset each was pressed at; snap keeps the engine as it was before the   *)
(* last key.                                                                *)

MaxPanDim == 3

ArrowKeys == {"KEY_LEFT", "KEY_RIGHT", "KEY_UP", "KEY_DOWN"}

\* A probability with which populate_random can draw one grid only
PanProbs == {prob \in ValidProbs : Cardinality(CellOutcomes(prob)) = 1}

\* curses_wrapped_main, and CursesApp.main up to its loop: the game and the
\* application are created, the game is reset and populated
InitPan ==
    /\ impl \in Impls
    /\ legacy = NoLegacy
    /\ prevCells = NoGrid /\ prevFates = NoGrid /\ unchanged = NoGrid /\ zeroStart = NoGrid
    /\ draws = 0 /\ calls = 0
    /\ raised = NoError
    /\ lastOp = "populate_random"
    /\ \E w \in 1 .. MaxPanDim, h \in 1 .. MaxPanDim, prob \in PanProbs, color \in BOOLEAN :
       \E drawn \in DrawnGrids(impl, w, h, prob) :
       \E new \in {GameOfLife_init(impl, w, h)} :
       \E made \in {CursesApp_reset(impl, new.generation, new.grids.cells, new.grids.fates,
                                    new.grids.ages, drawn, w, h)} :
          /\ width = w
          /\ height = h
          /\ lastProb = prob
          /\ generation = made.generation
          /\ cells = made.grids.cells
          /\ fates = made.grids.fates
          /\ ages = made.grids.ages
          /\ app = [pc |-> "pan", args |-> [width |-> w, height |-> h, prob |-> prob],
                    paused |-> FALSE, quit |-> FALSE, speed |-> SpeedOne,
                    pos_x |-> 0, pos_y |-> 0, color |-> color,
                    key |-> NoKey, k |-> 0, char |-> "", ink |-> 0, snap |-> <<>>,
                    trail |-> <<>>]

\* The last n items of a sequence
LastOf(s, n) == IF Len(s) <= n THEN s ELSE SubSeq(s, Len(s) - n + 1, Len(s))

\* keycode = self.screen.getch() returns an arrow key and its handler runs
PanKey ==
    /\ app.pc = "pan"
    /\ AppNoHistory
    /\ EngineUntouched
    /\ \E keycode \in ArrowKeys :
          app' = [CursesApp_handle(app, keycode, width, height)
                     EXCEPT !.key = keycode,
                            !.snap = GameObject,
                            !.trail = LastOf(Append(app.trail,
                                                    [key |-> keycode, pos_x |-> app.pos_x,
                                                     pos_y |-> app.pos_y]),
                                             MaxPanDim)]

NextPan == PanKey

SpecPan == InitPan /\ [][NextPan]_vars

\* The key that undoes a key
Opposite ==
    ("KEY_LEFT" :> "KEY_RIGHT") @@ ("KEY_RIGHT" :> "KEY_LEFT")
    @@ ("KEY_UP" :> "KEY_DOWN") @@ ("KEY_DOWN" :> "KEY_UP")

\* The last n keys of the trail were all the key `keycode`
RunOf(keycode, n) ==
    /\ n <= Len(app.trail)
    /\ \A i \in (Len(app.trail) - n + 1) .. Len(app.trail) : app.trail[i].key = keycode

\* The offset is the one the n-th last key was pressed at
BackAt(n) ==
    /\ app.pos_x = app.trail[Len(app.trail) - n + 1].pos_x
    /\ app.pos_y = app.trail[Len(app.trail) - n + 1].pos_y

\* C34: after any sequence of arrow-key presses 0 <= pos_x < game.width and
\* 0 <= pos_y < game.height; a key followed by its opposite leaves the offset
\* where it was; width presses of one horizontal key, or height presses of one
\* vertical key, bring the offset back to where the first was pressed; an
\* arrow key leaves the engine as it was.
C34_PanningWraps ==
    app.pc = "pan" =>
        /\ app.pos_x \in 0 .. (width - 1)
        /\ app.pos_y \in 0 .. (height - 1)
        /\ app.snap # <<>> => GameObject = app.snap
        /\ \A keycode \in ArrowKeys :
              /\ (/\ Len(app.trail) >= 2
                  /\ app.trail[Len(app.trail)].key = Opposite[keycode]
                  /\ app.trail[Len(app.trail) - 1].key = keycode) => BackAt(2)
              /\ (keycode \in {"KEY_LEFT", "KEY_RIGHT"} /\ RunOf(keycode, width))
                     => BackAt(width)
              /\ (keycode \in {"KEY_UP", "KEY_DOWN"} /\ RunOf(keycode, height))
                     => BackAt(height)

\* On a game 3 wide, KEY_LEFT was pressed three times from offset 0, going
\* through 2 and 1 back to 0
C34_Witness ==
    /\ app.pc = "pan"
    /\ width = 3
    /\ RunOf("KEY_LEFT", 3)
    /\ app.trail[1].pos_x = 0 /\ app.trail[2].pos_x = 2 /\ app.trail[3].pos_x = 1
    /\ app.pos_x = 0
    /\ app.snap = GameObject

---------------------------------------------------------------------------
(* TorusGrid as objects: _rows is a list of references to row objects.     *)
(* rows[r] is the identity of the CircularList at index r of _rows, heap   *)
(* gives the items of each row object.  The grids of the engines above     *)
(* are the view of such an object whose rows are all distinct.             *)

\* The values written to the cells of a grid
CellValues == {0, 1}

\* height references to one row object: [CircularList(...)] * height
torus_rows_shared(w, h, init_value) ==
    [rows |-> [r \in Range(h) |-> 0],
     heap |-> [id \in Range(h) |-> [c \in Range(w) |-> init_value]]]

\* TorusGrid.__init__: the list comprehension creates one CircularList per
\* item of range(height)
TorusGrid_object(w, h, init_value) ==
    [rows |-> [r \in Range(h) |-> r],
     heap |-> [id \in Range(h) |-> [c \in Range(w) |-> init_value]]]

\* TorusGrid.__getitem__: the row object self._rows[idx % len(self._rows)]
TorusGrid_row(g, idx) == g.rows[idx % ListLen(g.rows)]

\* grid[row][col]
TorusGrid_read(g, row, col) == CircularList_getitem(g.heap[TorusGrid_row(g, row)], col)

\* grid[row][col] = value: CircularList.__setitem__ on the row object that
\* TorusGrid.__getitem__ returns
TorusGrid_write(g, row, col, value) ==
    [g EXCEPT !.heap[TorusGrid_row(g, row)] = CircularList_setitem(@, col, value)]

\* The items of the grid, row by row
TorusGrid_view(g) == [r \in DOMAIN g.rows |-> g.heap[g.rows[r]]]

\* grid = TorusGrid(width, height, init_value)
InitTorus ==
    /\ impl = "TorusGrid"
    /\ app = NoApp /\ legacy = NoLegacy
    /\ generation = 0
    /\ fates = NoGrid /\ ages = NoGrid /\ unchanged = NoGrid /\ zeroStart = NoGrid
    /\ prevFates = NoGrid
    /\ lastProb = NoProb /\ draws = 0 /\ calls = 0
    /\ raised = NoError
    /\ lastOp = "__init__"
    /\ \E w \in 1 .. MaxDim, h \in 1 .. MaxDim, init_value \in CellValues :
          /\ width = w
          /\ height = h
          /\ cells = TorusGrid_object(w, h, init_value)
          /\ prevCells = cells

\* grid[row][col] = value; prevCells keeps the grid as it was
TorusSetItem ==
    /\ impl = "TorusGrid"
    /\ \E row \in Coords, col \in Coords, value \in CellValues :
          cells' = TorusGrid_write(cells, row, col, value)
    /\ prevCells' = cells
    /\ lastOp' = "__setitem__"
    /\ UNCHANGED <<impl, width, height, generation, fates, ages, lastProb, draws, calls,
                   prevFates, unchanged, zeroStart, raised, app, legacy>>

NextTorus == TorusSetItem

SpecTorus == InitTorus /\ [][NextTorus]_vars

\* The cells of the grid at which the objects g1 and g2 differ
Differing(g1, g2) ==
    {ij \in Range(height) \X Range(width) :
        TorusGrid_read(g1, ij[1], ij[2]) # TorusGrid_read(g2, ij[1], ij[2])}

\* C35: a write grid[r][c] = v on a TorusGrid, for any integers r and c,
\* changes exactly the backing cell (r mod height, c mod width): a read at
\* any coordinates congruent to (r, c) then returns v, and every other cell,
\* of the same row and of every other row, keeps its value.  The rows are
\* height objects of width items, and the write on the objects is the write
\* on the grid of values.
C35_WriteChangesOneCell ==
    impl = "TorusGrid" =>
        /\ \A r1 \in Range(height), r2 \in Range(height) :
              r1 # r2 => cells.rows[r1] # cells.rows[r2]
        /\ Cardinality(Differing(prevCells, cells)) <= 1
        /\ \A r \in Coords, c \in Coords, v \in CellValues :
              LET written == TorusGrid_write(cells, r, c, v)
              IN /\ \A k \in Wraps, l \in Wraps :
                        TorusGrid_read(written, r + k * height, c + l * width) = v
                 /\ Differing(cells, written) \subseteq {<<Wrapped(r, height), Wrapped(c, width)>>}
                 /\ TorusGrid_read(cells, r, c) # v =>
                        Differing(cells, written) = {<<Wrapped(r, height), Wrapped(c, width)>>}
                 /\ TorusGrid_view(written) = GridSet(TorusGrid_view(cells), r, c, v)

\* On a 3 x 3 grid of zeros but for a 1, a write of 1 at coordinates outside
\* the grid changed the cell (2, 1) alone: the other cells of row 2 and of
\* column 1 are 0
C35_Witness ==
    /\ impl = "TorusGrid"
    /\ lastOp = "__setitem__"
    /\ width = 3 /\ height = 3
    /\ cells = TorusGrid_write(prevCells, -1, -2, 1)
    /\ Differing(prevCells, cells) = {<<2, 1>>}
    /\ TorusGrid_read(cells, 5, 4) = 1
    /\ \A i \in Range(height) : i # 2 => TorusGrid_read(cells, i, 1) = 0
    /\ \A j \in Range(width) : j # 1 => TorusGrid_read(cells, 2, j) = 0
    /\ \E ij \in Range(height) \X Range(width) : ij # <<2, 1>> /\ TorusGrid_read(cells, ij[1], ij[2]) = 1

---------------------------------------------------------------------------
(* The two full engines on square grids of 3 x 3 cells and more.           *)

MaxSquare == 4
MaxSquareLive == 5

\* The matrices the square grids are populated with: every matrix of 3 x 3
\* cells, and the larger ones of at most MaxSquareLive live cells
SquareDrawn(i, n) ==
    {drawn \in DrawnGrids(i, n, n, PatternProb) :
        n > 3 => Cardinality({ij \in CellsOf(drawn) : drawn[ij[1]][ij[2]] = 1}) <= MaxSquareLive}

\* game = <class>(n, n); game.populate_random(prob), for the matrices drawn
InitSquare ==
    /\ impl \in FullImpls
    /\ \E n \in 3 .. MaxSquare :
         /\ width = n
         /\ height = n
         /\ \E drawn \in SquareDrawn(impl, n) :
            \E new \in {GameOfLife_init(impl, n, n)} :
            \E made \in {Engine_populate_random(impl, new.grids.cells, new.grids.fates,
                                                new.grids.ages, drawn, n, n)} :
               /\ generation = new.generation
               /\ cells = made.cells
               /\ fates = made.fates
               /\ ages = made.ages
               /\ prevCells = made.cells
               /\ prevFates = made.fates
               /\ unchanged = PerCell(made.cells, 0)
               /\ zeroStart = AgeIsZero(made.cells, made.ages)
               /\ draws = n * n
    /\ lastOp = "populate_random"
    /\ lastProb = PatternProb
    /\ calls = 0
    /\ raised = NoError
    /\ app = NoApp
    /\ legacy = NoLegacy

NextSquare == NextGeneration

SpecSquare == InitSquare /\ [][NextSquare]_vars

\* The grids of a GamePython object and of a GameNumPy object, each
\* constructed n x n and populated with the matrix drawn
StartedFrom(i, drawn, n) ==
    LET new == GameOfLife_init(i, n, n)
    IN Engine_populate_random(i, new.grids.cells, new.grids.fates, new.grids.ages,
                              drawn, n, n)

\* C36: on a square n x n grid with n >= 3, GameNumPy and GamePython started
\* from the same cell matrix have the same cells, fates and ages after any
\* number of next_generation calls.  Both start with the same cells, fates
\* and ages, and from every state either engine reaches, the step of
\* GameNumPy and the step of GamePython give the same cells, fates and ages;
\* the fate chosen from the convolved value of a cell is the fate chosen from
\* its neighbour count.
C36_NumPyMatchesPython ==
    (impl \in FullImpls /\ width = height /\ width >= 3) =>
        /\ calls = 0 =>
              \E started \in {StartedFrom("GameNumPy", cells, width)} :
                 /\ started = StartedFrom("GamePython", cells, width)
                 /\ started = [cells |-> cells, fates |-> fates, ages |-> ages]
        /\ GameNumPy_step(cells, fates, ages, width, height)
              = GamePython_step(cells, fates, ages, width, height)
        /\ GameNumPy_compute_fates(cells, fates)
              = GamePython_compute_fates(cells, fates, width, height)

\* A GameNumPy object on a 4 x 4 grid after two calls: the five fates are
\* present, and so are the ages 0, 1 and 2
C36_Witness ==
    /\ impl = "GameNumPy"
    /\ width = 4 /\ height = 4
    /\ lastOp = "next_generation" /\ calls = 2
    /\ \A f \in {StayDead, Birth, Survive, DeathByIsolation, DeathByOvercrowding} :
          \E ij \in CellsOf(fates) : fates[ij[1]][ij[2]] = f
    /\ \A a \in 0 .. 2 : \E ij \in CellsOf(ages) : ages[ij[1]][ij[2]] = a
    /\ GameNumPy_step(cells, fates, ages, width, height).ages
          = GamePython_step(cells, fates, ages, width, height).ages

====
